---- MODULE Spec2Model ----
(***************************************************************************)
(* Model of the dependency-aware synthetic-data generation planner:        *)
(* the GenerationDAG container (add_node, add_edge, to_dict, from_dict)    *)
(* and the DAGBuilder (build_dag_from_task, _parse_response,               *)
(* _validate_dag, to_networkx, get_generation_order, get_linear_order)     *)
(* of synthetic-data-gen/src/dag_builder.py, with the output_dag caller of *)
(* synthetic-data-gen/src/main.py; the ScenarioPlanner (plan_environment)  *)
(* of synthetic-data-gen/src/scenario_planner.py with its caller           *)
(* setup_environment of main.py; and the existing-data summary of the two  *)
(* prompts (build_dag_prompt, build_scenario_prompt).                      *)
(*                                                                         *)
(* Python values are represented as follows.                               *)
(*   dict            a sequence of [key, val] entries in insertion order   *)
(*   list            a sequence                                            *)
(*   mutable list    an address into `heap` (node.depends_on is the one    *)
(*                   list the code mutates, so two objects holding the     *)
(*                   same address share the list, as in Python)            *)
(*   JSON object     a record; a key the object lacks is outside DOMAIN    *)
(*   opaque payload  a string token (context, schema, mapping, ...)        *)
(***************************************************************************)
EXTENDS Integers, Sequences, FiniteSets, TLC

VARIABLES
  dag,              \* the GenerationDAG under construction / parsed by the builder
  dag2,             \* the graph from_dict(to_dict(dag)) returned last
  heap,             \* the depends_on list objects, by address
  last_op,          \* the GenerationDAG operation executed last
  stale,            \* ids re-added by add_node after an edge into them was recorded
  pc,               \* position of the builder call
  entry,            \* who called the builder: "direct" or "output_dag"
  schemas,          \* the schemas argument of build_dag_from_task
  response,         \* the parsed JSON of the model response
  model_calls,      \* number of chat.completions.create calls issued
  result,           \* "none" | "returned" | "raised" | "error_dict"
  error,            \* the exception raised / error returned
  generation_order, \* result of get_generation_order
  linear_order,     \* result of get_linear_order
  last_node,        \* the node handed to the last add_node call, its list dereferenced
  world,            \* environments.world_markdown, by environment id
  env,              \* environment_id of the setup_environment run
  existing_world,   \* existing_world handed to plan_environment
  plan_json,        \* the parsed JSON of the planner's model response
  plan,             \* the EnvironmentPlan built by plan_environment
  warnings,         \* the warnings plan_environment logged
  existing_data,    \* existing_data handed to the prompt builders
  dag_prompt,       \* existing_text of build_dag_prompt
  scenario_prompt,  \* existing_text of build_scenario_prompt
  artificial_data,  \* rows of the artificial_data table of the agent server
  next_id,          \* the id the next inserted row gets
  store_op,         \* the store operation executed last, with its arguments
  store_result,     \* what that operation returned or raised
  loop_pc,          \* position of gen_data.py's main loop
  seed_file,        \* parsed content of the --seed file
  synthetic_file,   \* parsed content of the --synthetic file
  args_target,      \* args.target
  generated_objects,\* the objects main appended in this run
  loop_calls,       \* model calls issued by the loop, counted up to MaxLoopCalls
  initial_total,    \* seed + synthetic count when main started
  final_total,      \* final_total of main's result
  run_pc,           \* position of each of two concurrent setup_environment runs
  run_existing_world, \* existing_world each run read from the environments row
  run_plan_world,   \* plan.world_markdown each run got from the planner
  world_writers,    \* the runs that saved a world, in the order of their writes
  run_read_after,   \* the number of writes done when each run read the row
  pipeline_pc,      \* position of run_generation_pipeline and its caller
  pipeline_env,     \* environment_id of the call
  pipeline_schemas, \* schemas fetched by run_generation_pipeline
  extractions,      \* the extract_structured_data calls made, with what they returned
  generated_data,   \* generated_data of stage 2
  pipeline_result,  \* what run_generation_pipeline returned
  pipeline_calls,   \* model calls issued by the pipeline
  inserted_records  \* the records insert_generated_data inserted

vars == <<dag, dag2, heap, last_op, stale, pc, entry, schemas, response,
          model_calls, result, error, generation_order, linear_order,
          last_node, world, env, existing_world, plan_json, plan, warnings,
          existing_data, dag_prompt, scenario_prompt,
          artificial_data, next_id, store_op, store_result,
          loop_pc, seed_file, synthetic_file, args_target, generated_objects,
          loop_calls, initial_total, final_total,
          run_pc, run_existing_world, run_plan_world, world_writers, run_read_after,
          pipeline_pc, pipeline_env, pipeline_schemas, extractions, generated_data,
          pipeline_result, pipeline_calls, inserted_records>>

graph_vars == <<dag, dag2, heap, last_op, stale, last_node>>

builder_vars == <<pc, entry, schemas, response, model_calls, result, error,
                  generation_order, linear_order>>

setup_vars == <<world, env, existing_world, plan_json, plan, warnings>>

prompt_vars == <<existing_data, dag_prompt, scenario_prompt>>

store_vars == <<artificial_data, next_id, store_op, store_result>>

loop_vars == <<loop_pc, seed_file, synthetic_file, args_target, generated_objects,
               loop_calls, initial_total, final_total>>

\* the variables of the planner and its callers
planner_vars == <<graph_vars, builder_vars, setup_vars, prompt_vars>>

\* the variables of the other components, which the planner's steps never touch
race_vars == <<run_pc, run_existing_world, run_plan_world, world_writers, run_read_after>>

pipeline_vars == <<pipeline_pc, pipeline_env, pipeline_schemas, extractions, generated_data,
                   pipeline_result, pipeline_calls, inserted_records>>

rest_vars == <<store_vars, loop_vars, race_vars, pipeline_vars>>

-----------------------------------------------------------------------------
(* Bounds and input domains *)

\* largest graph built through add_node/add_edge: nodes + depends_on entries + edges
MaxGraphSize == 5

\* largest model response: nodes + depends_on entries + edges
MaxResponseSize == 3

\* longest schemas list handed to the builder
MaxSchemas == 1

\* largest planner response: scenes + scene nodes
MaxPlanSize == 3

\* largest number of artificial_data rows an environment holds
MaxExisting == 11

\* largest --target of gen_data.py
MaxTarget == 4

\* largest number of objects in the seed and the synthetic file at the start
MaxFileSize == 2

\* the count of model calls of the generation loop stops at this number
MaxLoopCalls == 5

\* largest number of rows ever inserted into artificial_data
MaxRecords == 2

\* the slice existing_data[:10] of both prompt builders
PromptRecordLimit == 10

NodeIds == {"A", "B"}

\* ids a model response may name as an edge endpoint ("C" is never a node)
EdgeIds == {"A", "B", "C"}

EmptyDict == "{}"

NoneValue == "None"

\* a local variable that has no value yet
Unbound == [unbound |-> TRUE]

ThreadSchema == "{thread-schema}"

\* the schema rows that fetch_schemas_for_apps can return
SchemaRows == {[app |-> "gmail", component_name |-> "thread", schema |-> ThreadSchema]}

\* schema_id strings a node may carry: one that the rows define, one that they do not
SchemaIds == {"gmail/thread", "analysis/filter"}

BoundedSeq(S, n) == UNION {[1..k -> S] : k \in 0..n}

-----------------------------------------------------------------------------
(* Python built-ins *)

\* x in xs
Contains(xs, x) == \E i \in 1..Len(xs) : xs[i] = x

\* xs.count(x)
Count(xs, x) == Cardinality({i \in 1..Len(xs) : xs[i] = x})

\* k in d
DictHas(d, k) == \E i \in 1..Len(d) : d[i].key = k

DictIndex(d, k) == CHOOSE i \in 1..Len(d) : d[i].key = k

\* d[k]
DictGet(d, k) == d[DictIndex(d, k)].val

\* d[k] = v: a new key goes last, an existing key keeps its position
DictSet(d, k, v) ==
  IF DictHas(d, k)
    THEN [d EXCEPT ![DictIndex(d, k)] = [key |-> k, val |-> v]]
    ELSE Append(d, [key |-> k, val |-> v])

\* list(d.keys())
DictKeys(d) == [i \in 1..Len(d) |-> d[i].key]

\* list(d.values())
DictValues(d) == [i \in 1..Len(d) |-> d[i].val]

\* obj.get(k, default) on a JSON object
Get(obj, k, default) == IF k \in DOMAIN obj THEN obj[k] ELSE default

-----------------------------------------------------------------------------
(* Data structures: DAGNode, DAGEdge, GenerationDAG *)

DAGNode(id, schema_id, instruction, context, depends_on, reference_examples, schema, update_existing_id) ==
  [id |-> id, schema_id |-> schema_id, instruction |-> instruction,
   context |-> context, depends_on |-> depends_on,
   reference_examples |-> reference_examples, schema |-> schema,
   update_existing_id |-> update_existing_id]

DAGEdge(source, target, relationship, mapping) ==
  [source |-> source, target |-> target, relationship |-> relationship,
   mapping |-> mapping]

GenerationDAG(task) == [task |-> task, nodes |-> <<>>, edges |-> <<>>]

\* a new list object holding xs; its address is the next free one
Alloc(h, xs) == Append(h, xs)

\* an add_node that keeps the node already stored under the id
add_node_keep_existing(g, node) ==
  IF DictHas(g.nodes, node.id) THEN g
  ELSE [g EXCEPT !.nodes = Append(g.nodes, [key |-> node.id, val |-> node])]

\* self.nodes[node.id] = node
add_node(g, node) == [g EXCEPT !.nodes = DictSet(g.nodes, node.id, node)]

\* add_edge that records the edge and forgets the back-fill
add_edge_heap_without_backfill(g, h, edge) == h

\* the depends_on back-fill of add_edge, done in place on the target's list
add_edge_heap(g, h, edge) ==
  IF DictHas(g.nodes, edge.target)
    THEN LET a == DictGet(g.nodes, edge.target).depends_on
         IN  IF ~Contains(h[a], edge.source)
               THEN [h EXCEPT ![a] = Append(h[a], edge.source)]
               ELSE h
    ELSE h

\* an add_edge that records nothing when the target is no node yet
add_edge_known_target(g, h, edge) ==
  IF DictHas(g.nodes, edge.target)
    THEN [dag |-> [g EXCEPT !.edges = Append(g.edges, edge)], heap |-> add_edge_heap(g, h, edge)]
    ELSE [dag |-> g, heap |-> h]

\* self.edges.append(edge), then the back-fill
add_edge(g, h, edge) ==
  [dag |-> [g EXCEPT !.edges = Append(g.edges, edge)],
   heap |-> add_edge_heap(g, h, edge)]

to_dict_node(node) ==
  [id |-> node.id, schema_id |-> node.schema_id, instruction |-> node.instruction,
   context |-> node.context, depends_on |-> node.depends_on,
   reference_examples |-> node.reference_examples,
   update_existing_id |-> node.update_existing_id]

to_dict_edge(edge) ==
  [source |-> edge.source, target |-> edge.target,
   relationship |-> edge.relationship, mapping |-> edge.mapping]

\* the record holds the nodes' own depends_on lists (their addresses), not copies
to_dict(g) ==
  [task |-> g.task,
   nodes |-> [i \in 1..Len(g.nodes) |-> to_dict_node(g.nodes[i].val)],
   edges |-> [i \in 1..Len(g.edges) |-> to_dict_edge(g.edges[i])]]

from_dict_node(node_data) ==
  DAGNode(node_data.id, node_data.schema_id,
          Get(node_data, "instruction", ""),
          Get(node_data, "context", EmptyDict),
          node_data.depends_on,
          Get(node_data, "reference_examples", "[]"),
          EmptyDict,
          Get(node_data, "update_existing_id", NoneValue))

from_dict_edge(edge_data) ==
  DAGEdge(edge_data.source, edge_data.target,
          Get(edge_data, "relationship", "data_flow"),
          Get(edge_data, "mapping", EmptyDict))

RECURSIVE from_dict_nodes(_, _, _)
from_dict_nodes(g, node_list, i) ==
  IF i > Len(node_list) THEN g
  ELSE from_dict_nodes(add_node(g, from_dict_node(node_list[i])), node_list, i + 1)

RECURSIVE add_edges(_, _, _, _)
add_edges(g, h, edge_list, i) ==
  IF i > Len(edge_list) THEN [dag |-> g, heap |-> h]
  ELSE LET r == add_edge(g, h, edge_list[i])
       IN  add_edges(r.dag, r.heap, edge_list, i + 1)

from_dict(data, h) ==
  LET g1 == from_dict_nodes(GenerationDAG(data.task), data.nodes, 1)
  IN  add_edges(g1, h, [i \in 1..Len(data.edges) |-> from_dict_edge(data.edges[i])], 1)

-----------------------------------------------------------------------------
(* networkx: a DiGraph is its adjacency dict, node -> list of successors,  *)
(* both in insertion order                                                 *)

nx_add_node(G, n) == IF DictHas(G, n) THEN G ELSE DictSet(G, n, <<>>)

\* adds both endpoints when missing, then the edge unless it is already there
nx_add_edge(G, u, v) ==
  LET G2 == nx_add_node(nx_add_node(G, u), v)
      succ == DictGet(G2, u)
  IN  IF Contains(succ, v) THEN G2 ELSE DictSet(G2, u, Append(succ, v))

RECURSIVE nx_add_nodes(_, _, _)
nx_add_nodes(G, ids, i) ==
  IF i > Len(ids) THEN G ELSE nx_add_nodes(nx_add_node(G, ids[i]), ids, i + 1)

RECURSIVE nx_add_edges(_, _, _)
nx_add_edges(G, edge_list, i) ==
  IF i > Len(edge_list) THEN G
  ELSE nx_add_edges(nx_add_edge(G, edge_list[i].source, edge_list[i].target), edge_list, i + 1)

\* the graph holds dag.nodes' ids and dag.edges; depends_on is not read
to_networkx(g) == nx_add_edges(nx_add_nodes(<<>>, DictKeys(g.nodes), 1), g.edges, 1)

in_degree(G, v) == Cardinality({i \in 1..Len(G) : Contains(G[i].val, v)})

\* the inner loop of topological_generations over the children of one node
RECURSIVE visit_children(_, _, _)
visit_children(st, children, i) ==
  IF i > Len(children) THEN st
  ELSE LET child == children[i]
           d == st.indegree_map[child] - 1
       IN  visit_children(
             [indegree_map |-> [st.indegree_map EXCEPT ![child] = d],
              zero_indegree |-> IF d = 0 THEN Append(st.zero_indegree, child)
                                         ELSE st.zero_indegree],
             children, i + 1)

RECURSIVE visit_generation(_, _, _, _)
visit_generation(G, st, this_generation, i) ==
  IF i > Len(this_generation) THEN st
  ELSE visit_generation(G, visit_children(st, DictGet(G, this_generation[i]), 1),
                        this_generation, i + 1)

RECURSIVE generations_loop(_, _, _, _)
generations_loop(G, indegree_map, zero_indegree, acc) ==
  IF zero_indegree = <<>>
    THEN [value |-> acc,
          unfeasible |-> \E n \in DOMAIN indegree_map : indegree_map[n] > 0]
    ELSE LET st == visit_generation(
                     G, [indegree_map |-> indegree_map, zero_indegree |-> <<>>],
                     zero_indegree, 1)
         IN  generations_loop(G, st.indegree_map, st.zero_indegree,
                              Append(acc, zero_indegree))

\* nx.topological_generations(G), consumed to the end: the generations, and
\* whether the generator ended by raising NetworkXUnfeasible
topological_generations(G) ==
  LET ids == DictKeys(G)
      nodes == {ids[i] : i \in 1..Len(ids)}
      indegree_map == [n \in nodes |-> in_degree(G, n)]
      zero_indegree == SelectSeq(ids, LAMBDA n : indegree_map[n] = 0)
  IN  generations_loop(G, indegree_map, zero_indegree, <<>>)

RECURSIVE Flatten(_)
Flatten(xss) == IF xss = <<>> THEN <<>> ELSE Head(xss) \o Flatten(Tail(xss))

\* nx.topological_sort(G): the generations one after the other
topological_sort(G) ==
  LET gens == topological_generations(G)
  IN  [value |-> Flatten(gens.value), unfeasible |-> gens.unfeasible]

\* nx.is_directed_acyclic_graph(G): topological_sort runs to the end
is_directed_acyclic_graph(G) == ~topological_sort(G).unfeasible

\* nx.edge_dfs(G, start): the out-edges in depth-first order, each edge once
RECURSIVE edge_dfs_loop(_, _)
edge_dfs_loop(G, st) ==
  IF st.stack = <<>> THEN st.yielded
  ELSE LET current_node == st.stack[Len(st.stack)]
           next == st.position[current_node]
           out == DictGet(G, current_node)
       IN  IF next > Len(out)
             THEN edge_dfs_loop(G, [st EXCEPT !.stack = SubSeq(@, 1, Len(@) - 1)])
             ELSE LET edge == <<current_node, out[next]>>
                  IN  IF edge \in st.visited_edges
                        THEN edge_dfs_loop(G, [st EXCEPT !.position[current_node] = next + 1])
                        ELSE edge_dfs_loop(G,
                               [st EXCEPT !.position[current_node] = next + 1,
                                          !.visited_edges = @ \cup {edge},
                                          !.stack = Append(@, edge[2]),
                                          !.yielded = Append(@, edge)])

edge_dfs(G, start_node) ==
  LET ids == DictKeys(G)
  IN  edge_dfs_loop(G, [stack |-> <<start_node>>,
                        position |-> [n \in {ids[i] : i \in 1..Len(ids)} |-> 1],
                        visited_edges |-> {},
                        yielded |-> <<>>])

\* find_cycle's backtracking: pops edges until the last edge's head is `tail`
RECURSIVE pop_until(_, _, _)
pop_until(edges, active_nodes, tail) ==
  IF edges = <<>>
    THEN [edges |-> <<>>, active_nodes |-> {tail}, key_error |-> FALSE]
    ELSE LET popped_head == edges[Len(edges)][2]
             rest == SubSeq(edges, 1, Len(edges) - 1)
         IN  IF popped_head \notin active_nodes
               THEN [edges |-> rest, active_nodes |-> active_nodes, key_error |-> TRUE]
               ELSE IF rest # <<>> /\ rest[Len(rest)][2] = tail
                      THEN [edges |-> rest, active_nodes |-> active_nodes \ {popped_head},
                            key_error |-> FALSE]
                      ELSE pop_until(rest, active_nodes \ {popped_head}, tail)

\* find_cycle's loop over the edges of one depth-first search
RECURSIVE scan_edges(_, _, _, _)
scan_edges(dfs, i, explored, st) ==
  IF i > Len(dfs) THEN st
  ELSE LET tail == dfs[i][1]
           head == dfs[i][2]
       IN  IF head \in explored THEN scan_edges(dfs, i + 1, explored, st)
           ELSE LET back == IF st.previous_head # NoneValue /\ tail # st.previous_head
                              THEN pop_until(st.edges, st.active_nodes, tail)
                              ELSE [edges |-> st.edges, active_nodes |-> st.active_nodes,
                                    key_error |-> FALSE]
                    edges == Append(back.edges, dfs[i])
                IN  IF back.key_error THEN [st EXCEPT !.key_error = TRUE]
                    ELSE IF head \in back.active_nodes
                      THEN [st EXCEPT !.cycle = edges, !.final_node = head]
                      ELSE scan_edges(dfs, i + 1, explored,
                             [st EXCEPT !.edges = edges,
                                        !.seen = @ \cup {head},
                                        !.active_nodes = back.active_nodes \cup {head},
                                        !.previous_head = head])

RECURSIVE find_cycle_loop(_, _, _)
find_cycle_loop(G, i, explored) ==
  IF i > Len(G) THEN [kind |-> "NetworkXNoCycle", cycle |-> <<>>, final_node |-> NoneValue]
  ELSE LET start_node == G[i].key
       IN  IF start_node \in explored THEN find_cycle_loop(G, i + 1, explored)
           ELSE LET st == scan_edges(edge_dfs(G, start_node), 1, explored,
                            [edges |-> <<>>, seen |-> {start_node},
                             active_nodes |-> {start_node}, previous_head |-> NoneValue,
                             cycle |-> <<>>, final_node |-> NoneValue, key_error |-> FALSE])
                IN  IF st.key_error
                      THEN [kind |-> "KeyError", cycle |-> <<>>, final_node |-> NoneValue]
                      ELSE IF st.cycle # <<>>
                        THEN [kind |-> "cycle", cycle |-> st.cycle, final_node |-> st.final_node]
                        ELSE find_cycle_loop(G, i + 1, explored \cup st.seen)

\* find_cycle without the final cut: the path that led into the cycle stays in front
find_cycle_untrimmed(G) ==
  LET found == find_cycle_loop(G, 1, {})
  IN  [kind |-> found.kind, cycle |-> found.cycle]

\* nx.find_cycle(G): the edges of one cycle, cut to start at the node that closes it
find_cycle(G) ==
  LET found == find_cycle_loop(G, 1, {})
      starts == {k \in 1..Len(found.cycle) : found.cycle[k][1] = found.final_node}
      first == IF starts = {} THEN Len(found.cycle)
               ELSE CHOOSE k \in starts : \A j \in starts : k <= j
  IN  IF found.kind = "cycle"
        THEN [kind |-> "cycle", cycle |-> SubSeq(found.cycle, first, Len(found.cycle))]
        ELSE [kind |-> found.kind, cycle |-> <<>>]

-----------------------------------------------------------------------------
(* DAGBuilder *)

\* f"{s['app']}/{s['component_name']}"
SchemaKey(s) == s.app \o "/" \o s.component_name

\* {f"{s['app']}/{s['component_name']}": s for s in schemas}
RECURSIVE valid_schemas_from(_, _, _)
valid_schemas_from(d, schema_list, i) ==
  IF i > Len(schema_list) THEN d
  ELSE valid_schemas_from(DictSet(d, SchemaKey(schema_list[i]), schema_list[i]), schema_list, i + 1)

ValidSchemas(schema_list) == valid_schemas_from(<<>>, schema_list, 1)

\* valid_schemas.get(schema_id, {}).get('schema', {})
LookupSchema(valid_schemas, schema_id) ==
  IF DictHas(valid_schemas, schema_id)
    THEN Get(DictGet(valid_schemas, schema_id), "schema", EmptyDict)
    ELSE EmptyDict

\* the node loop of _parse_response; json.loads made one list per node object
RECURSIVE parse_nodes(_, _, _, _, _)
parse_nodes(g, h, node_list, valid_schemas, i) ==
  IF i > Len(node_list) THEN [raised |-> "none", dag |-> g, heap |-> h]
  ELSE LET node_data == node_list[i]
           schema_id == Get(node_data, "schema_id", "")
           h1 == Alloc(h, Get(node_data, "depends_on", <<>>))
           node == DAGNode(node_data.id, schema_id,
                           Get(node_data, "instruction", ""),
                           Get(node_data, "context", EmptyDict),
                           Len(h1),
                           Get(node_data, "reference_examples", "[]"),
                           LookupSchema(valid_schemas, schema_id),
                           Get(node_data, "update_existing_id", NoneValue))
       IN  IF "id" \notin DOMAIN node_data
             THEN [raised |-> "KeyError", dag |-> g, heap |-> h]
             ELSE parse_nodes(add_node(g, node), h1, node_list, valid_schemas, i + 1)

parse_edge(edge_data) ==
  DAGEdge(Get(edge_data, "source", ""), Get(edge_data, "target", ""),
          Get(edge_data, "relationship", "data_flow"),
          Get(edge_data, "mapping", EmptyDict))

_parse_response(task, dag_json, valid_schemas) ==
  LET edge_list == Get(dag_json, "edges", <<>>)
      n == parse_nodes(GenerationDAG(task), <<>>, Get(dag_json, "nodes", <<>>), valid_schemas, 1)
      r == add_edges(n.dag, n.heap, [i \in 1..Len(edge_list) |-> parse_edge(edge_list[i])], 1)
  IN  IF n.raised # "none" THEN n
      ELSE [raised |-> "none", dag |-> r.dag, heap |-> r.heap]

NoError == [kind |-> "none", node_id |-> "", schema_id |-> "", valid |-> <<>>, cycles |-> <<>>]

\* a schema check that looks at the first node only
FirstInvalid_first_node_only(g, valid_schemas) ==
  IF g.nodes # <<>> /\ ~DictHas(valid_schemas, g.nodes[1].val.schema_id) THEN 1 ELSE 0

\* the first node, in dict order, whose schema_id is no key of valid_schemas; 0 if none
FirstInvalid(g, valid_schemas) ==
  LET bad == {i \in 1..Len(g.nodes) : ~DictHas(valid_schemas, g.nodes[i].val.schema_id)}
  IN  IF bad = {} THEN 0 ELSE CHOOSE i \in bad : \A j \in bad : i <= j

\* a validation that looks for cycles before it looks at the schemas
_validate_dag_cycles_first(g, valid_schemas) ==
  LET bad == FirstInvalid(g, valid_schemas)
      G == to_networkx(g)
  IN  IF ~is_directed_acyclic_graph(G)
        THEN LET found == find_cycle(G)
             IN  IF found.kind = "cycle"
                   THEN [NoError EXCEPT !.kind = "cycles", !.cycles = found.cycle]
                   ELSE [NoError EXCEPT !.kind = found.kind]
        ELSE IF bad # 0
          THEN [NoError EXCEPT !.kind = "invalid_schema",
                               !.node_id = g.nodes[bad].key,
                               !.schema_id = g.nodes[bad].val.schema_id,
                               !.valid = DictKeys(valid_schemas)]
          ELSE NoError

\* the exception _validate_dag raises, NoError when it returns
_validate_dag(g, valid_schemas) ==
  LET bad == FirstInvalid(g, valid_schemas)
      G == to_networkx(g)
  IN  IF bad # 0
        THEN [NoError EXCEPT !.kind = "invalid_schema",
                             !.node_id = g.nodes[bad].key,
                             !.schema_id = g.nodes[bad].val.schema_id,
                             !.valid = DictKeys(valid_schemas)]
        ELSE IF ~is_directed_acyclic_graph(G)
          THEN LET found == find_cycle(G)
               IN  IF found.kind = "cycle"
                     THEN [NoError EXCEPT !.kind = "cycles", !.cycles = found.cycle]
                     ELSE [NoError EXCEPT !.kind = found.kind]
          ELSE NoError

\* [list(gen) for gen in nx.topological_generations(G)]
get_generation_order(g) ==
  LET gens == topological_generations(to_networkx(g))
  IN  [raised |-> gens.unfeasible, value |-> IF gens.unfeasible THEN <<>> ELSE gens.value]

\* list(nx.topological_sort(G))
get_linear_order(g) ==
  LET order == topological_sort(to_networkx(g))
  IN  [raised |-> order.unfeasible, value |-> IF order.unfeasible THEN <<>> ELSE order.value]

-----------------------------------------------------------------------------
(* List identity: the heap keeps the lists some graph still refers to *)

NodeAddrs(g) == [i \in 1..Len(g.nodes) |-> g.nodes[i].val.depends_on]

RECURSIVE Dedupe(_)
Dedupe(xs) ==
  IF xs = <<>> THEN <<>>
  ELSE LET front == Dedupe(SubSeq(xs, 1, Len(xs) - 1))
           x == xs[Len(xs)]
       IN  IF Contains(front, x) THEN front ELSE Append(front, x)

Renumber(g, order) ==
  [g EXCEPT !.nodes =
     [i \in 1..Len(g.nodes) |->
        [g.nodes[i] EXCEPT !.val.depends_on =
           CHOOSE k \in 1..Len(order) : order[k] = g.nodes[i].val.depends_on]]]

\* drops the lists no graph refers to and numbers the rest in order of first use
Normalise(g, g2, h) ==
  LET order == Dedupe(NodeAddrs(g) \o NodeAddrs(g2))
  IN  [dag |-> Renumber(g, order), dag2 |-> Renumber(g2, order),
       heap |-> [k \in 1..Len(order) |-> h[order[k]]]]

\* the graph with every depends_on address replaced by the list it holds
Deref(g, h) ==
  [g EXCEPT !.nodes =
     [i \in 1..Len(g.nodes) |->
        [g.nodes[i] EXCEPT !.val.depends_on = h[g.nodes[i].val.depends_on]]]]

RECURSIVE SumLen(_, _)
SumLen(h, addrs) ==
  IF addrs = <<>> THEN 0 ELSE Len(h[Head(addrs)]) + SumLen(h, Tail(addrs))

GraphSize(g, h) == Len(g.nodes) + SumLen(h, NodeAddrs(g)) + Len(g.edges)

DepsOf(g, h, id) == h[DictGet(g.nodes, id).depends_on]

\* how many depends_on entries a node added under `id` may bring within MaxGraphSize
Room(g, h, id) ==
  LET others == SelectSeq(g.nodes, LAMBDA e : e.key # id)
  IN  MaxGraphSize - (Len(others) + SumLen(h, [i \in 1..Len(others) |-> others[i].val.depends_on]) + Len(g.edges)) - 1

HasEdgeInto(g, id) == \E i \in 1..Len(g.edges) : g.edges[i].target = id

-----------------------------------------------------------------------------
(* ScenarioPlanner and the tables setup_environment reads *)

\* the rows of the environments table; "env-0" has no row
EnvironmentRows ==
  {[id |-> "env-1", connectors |-> <<"gmail">>],
   [id |-> "env-2", connectors |-> <<"gmail">>],
   [id |-> "env-3", connectors |-> <<>>],
   [id |-> "env-4", connectors |-> <<"slack">>]}

StoredEnvs == {r.id : r \in EnvironmentRows}

EnvironmentIds == StoredEnvs \cup {"env-0"}

\* env_response.data[0] for an id that has a row
EnvironmentRow(environment_id) == CHOOSE r \in EnvironmentRows : r.id = environment_id

\* world_markdown texts a model response may carry
WorldTexts == {"# acme", "# acme beta"}

\* the rows of the schemas table
SchemaTable == <<[app |-> "gmail", component_name |-> "thread", schema |-> ThreadSchema]>>

\* select ... .in_('app', allowed_apps)
fetch_schemas_for_apps(allowed_apps) ==
  SelectSeq(SchemaTable, LAMBDA row : Contains(allowed_apps, row.app))

Scene(name, description, entity_refs, nodes) ==
  [name |-> name, description |-> description, entity_refs |-> entity_refs, nodes |-> nodes]

EnvironmentPlan(world_markdown, scenes) ==
  [world_markdown |-> world_markdown, scenes |-> scenes]

\* the list comprehension of plan_environment; s["name"] raises KeyError
RECURSIVE parse_scenes(_, _, _)
parse_scenes(scene_list, i, acc) ==
  IF i > Len(scene_list) THEN [raised |-> "none", scenes |-> acc]
  ELSE LET s == scene_list[i]
       IN  IF "name" \notin DOMAIN s THEN [raised |-> "KeyError", scenes |-> <<>>]
           ELSE parse_scenes(scene_list, i + 1,
                  Append(acc, Scene(s.name, Get(s, "description", ""),
                                    Get(s, "entity_refs", <<>>), Get(s, "nodes", <<>>))))

\* result -> EnvironmentPlan
parse_plan(result_json) ==
  LET r == parse_scenes(Get(result_json, "scenes", <<>>), 1, <<>>)
  IN  [raised |-> r.raised,
       plan |-> EnvironmentPlan(Get(result_json, "world_markdown", ""), r.scenes)]

\* {f"{s['app']}/{s['component_name']}" for s in schemas}
valid_schema_set(schema_list) == {SchemaKey(schema_list[k]) : k \in 1..Len(schema_list)}

\* a validation loop that logs nothing
scene_warnings_none(scene, valid, j) == <<>>

\* the warnings logged for the nodes of one scene, from node j on
RECURSIVE scene_warnings(_, _, _)
scene_warnings(scene, valid, j) ==
  IF j > Len(scene.nodes) THEN <<>>
  ELSE LET node == scene.nodes[j]
           schema_id == Get(node, "schema_id", "")
           rest == scene_warnings(scene, valid, j + 1)
       IN  IF schema_id \notin valid
             THEN <<[scene |-> scene.name, node |-> Get(node, "id", NoneValue), schema_id |-> schema_id]>> \o rest
             ELSE rest

\* the validation loop of plan_environment: it only logs
RECURSIVE plan_warnings(_, _, _)
plan_warnings(p, valid, i) ==
  IF i > Len(p.scenes) THEN <<>>
  ELSE scene_warnings(p.scenes[i], valid, 1) \o plan_warnings(p, valid, i + 1)

\* an update of the environments table without the .eq('id', environment_id) filter
update_world_all_rows(table, environment_id, world_markdown) ==
  [e \in DOMAIN table |-> world_markdown]

\* .update({'world_markdown': ...}).eq('id', environment_id)
update_world(table, environment_id, world_markdown) ==
  [table EXCEPT ![environment_id] = world_markdown]

\* EnvironmentPlan.to_dict
plan_to_dict(p) ==
  [world_markdown |-> p.world_markdown,
   scenes |-> [i \in 1..Len(p.scenes) |->
                 [name |-> p.scenes[i].name, description |-> p.scenes[i].description,
                  entity_refs |-> p.scenes[i].entity_refs, nodes |-> p.scenes[i].nodes]]]

\* the print loop of setup_environment: node['id'], node['schema_id'], node['instruction']
print_raises(p) ==
  \E i \in 1..Len(p.scenes) : \E j \in 1..Len(p.scenes[i].nodes) :
    {"id", "schema_id", "instruction"} \ DOMAIN p.scenes[i].nodes[j] # {}

\* a handler that catches the exception and starts the invocation again
after_raise_retry(entry_point) == "idle"

\* where control is after an exception left the planner or the builder: the
\* exception propagates to the caller, nothing catches it
after_raise(entry_point) == IF entry_point = "setup_environment" THEN "setup_done" ELSE "done"

SetupIdle ==
  /\ world = [e \in StoredEnvs |-> NoneValue]
  /\ env = NoneValue
  /\ existing_world = NoneValue
  /\ plan_json = Unbound
  /\ plan = Unbound
  /\ warnings = <<>>

PromptIdle ==
  /\ existing_data = <<>>
  /\ dag_prompt = Unbound
  /\ scenario_prompt = Unbound

\* the agent server's store before any operation
StoreIdle ==
  /\ artificial_data = <<>>
  /\ next_id = 1
  /\ store_op = Unbound
  /\ store_result = Unbound

\* gen_data.py not started
LoopIdle ==
  /\ loop_pc = "idle"
  /\ seed_file = Unbound
  /\ synthetic_file = Unbound
  /\ args_target = 0
  /\ generated_objects = <<>>
  /\ loop_calls = 0
  /\ initial_total = 0
  /\ final_total = 0

\* the two concurrent setup_environment runs
Runs == {1, 2}

\* no concurrent runs started
RaceIdle ==
  /\ run_pc = [r \in Runs |-> "idle"]
  /\ run_existing_world = [r \in Runs |-> NoneValue]
  /\ run_plan_world = [r \in Runs |-> NoneValue]
  /\ world_writers = <<>>
  /\ run_read_after = [r \in Runs |-> 0]

\* generate_data_from_scenario not called
PipelineIdle ==
  /\ pipeline_pc = "off"
  /\ pipeline_env = NoneValue
  /\ pipeline_schemas = <<>>
  /\ extractions = <<>>
  /\ generated_data = <<>>
  /\ pipeline_result = Unbound
  /\ pipeline_calls = 0
  /\ inserted_records = <<>>

RestIdle ==
  /\ StoreIdle
  /\ LoopIdle
  /\ RaceIdle
  /\ PipelineIdle

-----------------------------------------------------------------------------
(* Specification of the GenerationDAG container: any sequence of add_node, *)
(* add_edge and to_dict/from_dict round trips on one graph                 *)

NoGraph == GenerationDAG("")

BuilderIdle ==
  /\ pc = "idle"
  /\ entry = "none"
  /\ schemas = <<>>
  /\ response = [nodes |-> <<>>, edges |-> <<>>]
  /\ model_calls = 0
  /\ result = "none"
  /\ error = NoError
  /\ generation_order = [computed |-> FALSE, value |-> <<>>]
  /\ linear_order = [computed |-> FALSE, value |-> <<>>]

InitGraph ==
  /\ dag = GenerationDAG("task-1")
  /\ dag2 = NoGraph
  /\ heap = <<>>
  /\ last_op = "init"
  /\ stale = {}
  /\ last_node = Unbound
  /\ BuilderIdle
  /\ SetupIdle
  /\ PromptIdle
  /\ RestIdle

\* dag.add_node(DAGNode(id=..., depends_on=[...], schema=...)) with a new list
AddNode(id, schema_id, deps, schema) ==
  LET h1 == Alloc(heap, deps)
      node == DAGNode(id, schema_id, "generate it", EmptyDict, Len(h1), "[]", schema, NoneValue)
      n == Normalise(add_node(dag, node), NoGraph, h1)
  IN  /\ Len(deps) <= Room(dag, heap, id)
      /\ dag' = n.dag
      /\ heap' = n.heap
      /\ dag2' = NoGraph
      /\ last_op' = "add_node"
      /\ stale' = IF HasEdgeInto(dag, id) THEN stale \cup {id} ELSE stale
      /\ last_node' = [node EXCEPT !.depends_on = deps]
      /\ UNCHANGED <<builder_vars, setup_vars, prompt_vars>>
      /\ UNCHANGED rest_vars

\* dag.add_edge(DAGEdge(source, target))
AddEdge(source, target) ==
  LET r == add_edge(dag, heap, DAGEdge(source, target, "data_flow", EmptyDict))
      n == Normalise(r.dag, NoGraph, r.heap)
  IN  /\ GraphSize(r.dag, r.heap) <= MaxGraphSize
      /\ dag' = n.dag
      /\ heap' = n.heap
      /\ dag2' = NoGraph
      /\ last_op' = "add_edge"
      /\ UNCHANGED <<stale, last_node>>
      /\ UNCHANGED <<builder_vars, setup_vars, prompt_vars>>
      /\ UNCHANGED rest_vars

\* dag2 = GenerationDAG.from_dict(dag.to_dict())
RoundTrip ==
  LET r == from_dict(to_dict(dag), heap)
      n == Normalise(dag, r.dag, r.heap)
  IN  /\ last_op # "round_trip"
      /\ dag' = n.dag
      /\ dag2' = n.dag2
      /\ heap' = n.heap
      /\ last_op' = "round_trip"
      /\ UNCHANGED <<stale, last_node>>
      /\ UNCHANGED <<builder_vars, setup_vars, prompt_vars>>
      /\ UNCHANGED rest_vars

NextGraph ==
  \/ \E id \in NodeIds : \E deps \in BoundedSeq(NodeIds, Room(dag, heap, id)) :
       \E schema \in {EmptyDict, ThreadSchema} : AddNode(id, "gmail/thread", deps, schema)
  \/ \E source \in NodeIds, target \in NodeIds : AddEdge(source, target)
  \/ RoundTrip

SpecGraph == InitGraph /\ [][NextGraph]_vars

-----------------------------------------------------------------------------
(* Specification of one DAG Builder call: build_dag_from_task called       *)
(* directly or from output_dag, a model response within MaxResponseSize,      *)
(* then the orders a consumer asks for                                     *)

\* the node objects of a model response with at most `room` depends_on entries
ResponseNodes(room) ==
  [id : NodeIds, schema_id : SchemaIds, depends_on : BoundedSeq(NodeIds, room)]

ResponseEdges == [source : EdgeIds, target : EdgeIds]

\* node objects that lack keys of the documented shape
PartialNodes ==
  {[id |-> "A"], [schema_id |-> "gmail/thread"], [id |-> "A", schema_id |-> "gmail/thread"]}

\* edge objects that lack keys of the documented shape
PartialEdges == {[source |-> "A"], [target |-> "A"], [source |-> "A", target |-> "B"]}

\* the JSON object {}
EmptyObject == << >>

\* JSON objects without a "nodes" list, without an "edges" list, or with partial members
PartialResponses ==
  {EmptyObject}
    \cup {[nodes |-> node_list] : node_list \in BoundedSeq(PartialNodes, 2)}
    \cup {[edges |-> edge_list] : edge_list \in BoundedSeq(PartialEdges, 1)}
    \cup {[nodes |-> node_list, edges |-> edge_list] :
            node_list \in [1..1 -> PartialNodes], edge_list \in [1..1 -> PartialEdges]}

RECURSIVE SumDeps(_)
SumDeps(node_list) ==
  IF node_list = <<>> THEN 0
  ELSE Len(Head(node_list).depends_on) + SumDeps(Tail(node_list))

ResponseSize(dag_json) ==
  Len(dag_json.nodes) + SumDeps(dag_json.nodes) + Len(dag_json.edges)

InitBuilder ==
  /\ dag = NoGraph
  /\ dag2 = NoGraph
  /\ heap = <<>>
  /\ last_op = "init"
  /\ stale = {}
  /\ last_node = Unbound
  /\ BuilderIdle
  /\ SetupIdle
  /\ PromptIdle
  /\ RestIdle

\* DAGBuilder.build_dag_from_task(task, schemas) up to the model call it issues
CallBuilder(schema_list) ==
  /\ pc = "idle"
  /\ entry' = "direct"
  /\ schemas' = schema_list
  /\ model_calls' = model_calls + 1
  /\ pc' = "await_model"
  /\ UNCHANGED <<response, result, error, generation_order, linear_order>>
  /\ UNCHANGED <<graph_vars, setup_vars, prompt_vars>>
  /\ UNCHANGED rest_vars

\* output_dag(task, environment_id) up to its first return or the model call
OutputDag(env_found, allowed_apps, fetched) ==
  /\ pc = "idle"
  /\ entry' = "output_dag"
  /\ IF ~env_found
       THEN /\ result' = "error_dict"
            /\ error' = [NoError EXCEPT !.kind = "Environment not found"]
            /\ pc' = "done"
            /\ UNCHANGED <<schemas, model_calls>>
       ELSE IF allowed_apps = <<>>
         THEN /\ result' = "error_dict"
              /\ error' = [NoError EXCEPT !.kind = "No connectors configured for this environment"]
              /\ pc' = "done"
              /\ UNCHANGED <<schemas, model_calls>>
         ELSE IF fetched = <<>>
           THEN /\ result' = "error_dict"
                /\ error' = [NoError EXCEPT !.kind = "No schemas available"]
                /\ pc' = "done"
                /\ UNCHANGED <<schemas, model_calls>>
           ELSE /\ schemas' = fetched
                /\ model_calls' = model_calls + 1
                /\ pc' = "await_model"
                /\ UNCHANGED <<result, error>>
  /\ UNCHANGED <<response, generation_order, linear_order>>
  /\ UNCHANGED <<graph_vars, setup_vars, prompt_vars>>
  /\ UNCHANGED rest_vars

\* chat.completions.create returns; json.loads gives dag_json
ModelResponds(dag_json) ==
  /\ pc = "await_model"
  /\ ResponseSize(dag_json) <= MaxResponseSize
  /\ response' = dag_json
  /\ pc' = "parse"
  /\ UNCHANGED <<entry, schemas, model_calls, result, error, generation_order, linear_order>>
  /\ UNCHANGED <<graph_vars, setup_vars, prompt_vars>>
  /\ UNCHANGED rest_vars

\* the model call raises, or json.loads raises on content that is no JSON
ModelFails(kind) ==
  /\ pc = "await_model"
  /\ result' = "raised"
  /\ error' = [NoError EXCEPT !.kind = kind]
  /\ pc' = after_raise(entry)
  /\ UNCHANGED <<entry, schemas, response, model_calls, generation_order, linear_order>>
  /\ UNCHANGED <<graph_vars, setup_vars, prompt_vars>>
  /\ UNCHANGED rest_vars

\* the model returns a JSON object that lacks keys of the documented shape
ModelRespondsPartial(dag_json) ==
  /\ pc = "await_model"
  /\ response' = dag_json
  /\ pc' = "parse"
  /\ UNCHANGED <<entry, schemas, model_calls, result, error, generation_order, linear_order>>
  /\ UNCHANGED <<graph_vars, setup_vars, prompt_vars>>
  /\ UNCHANGED rest_vars

Parse ==
  LET r == _parse_response("task-1", response, ValidSchemas(schemas))
      n == Normalise(r.dag, NoGraph, r.heap)
  IN  /\ pc = "parse"
      /\ IF r.raised = "none"
           THEN /\ dag' = n.dag
                /\ heap' = n.heap
                /\ pc' = "validate"
                /\ UNCHANGED <<result, error>>
           ELSE /\ pc' = after_raise(entry)
                /\ result' = "raised"
                /\ error' = [NoError EXCEPT !.kind = r.raised]
                /\ UNCHANGED <<dag, heap>>
      /\ UNCHANGED <<dag2, last_op, stale, last_node>>
      /\ UNCHANGED <<setup_vars, prompt_vars>>
      /\ UNCHANGED rest_vars
      /\ UNCHANGED <<entry, schemas, response, model_calls, generation_order, linear_order>>

Validate ==
  LET raised == _validate_dag(dag, ValidSchemas(schemas))
  IN  /\ pc = "validate"
      /\ IF raised.kind = "none"
           THEN /\ pc' = "return"
                /\ UNCHANGED <<result, error>>
           ELSE /\ pc' = "done"
                /\ result' = "raised"
                /\ error' = raised
      /\ UNCHANGED <<entry, schemas, response, model_calls, generation_order, linear_order>>
      /\ UNCHANGED <<graph_vars, setup_vars, prompt_vars>>
      /\ UNCHANGED rest_vars

\* build_dag_from_task returns dag
Return ==
  /\ pc = "return"
  /\ result' = "returned"
  /\ pc' = IF entry = "output_dag" THEN "order" ELSE "returned"
  /\ UNCHANGED <<entry, schemas, response, model_calls, error, generation_order, linear_order>>
  /\ UNCHANGED <<graph_vars, setup_vars, prompt_vars>>
  /\ UNCHANGED rest_vars

\* dag_builder.get_generation_order(dag): step 4 of output_dag, or the direct caller
GetGenerationOrder ==
  LET order == get_generation_order(dag)
  IN  /\ pc \in {"order", "returned"}
      /\ ~generation_order.computed
      /\ IF order.raised
           THEN /\ result' = "raised"
                /\ error' = [NoError EXCEPT !.kind = "NetworkXUnfeasible"]
                /\ pc' = "done"
                /\ UNCHANGED generation_order
           ELSE /\ generation_order' = [computed |-> TRUE, value |-> order.value]
                /\ pc' = IF pc = "order" THEN "done" ELSE pc
                /\ UNCHANGED <<result, error>>
      /\ UNCHANGED <<entry, schemas, response, model_calls, linear_order>>
      /\ UNCHANGED <<graph_vars, setup_vars, prompt_vars>>
      /\ UNCHANGED rest_vars

\* dag_builder.get_linear_order(dag) by the direct caller
GetLinearOrder ==
  LET order == get_linear_order(dag)
  IN  /\ pc = "returned"
      /\ ~linear_order.computed
      /\ IF order.raised
           THEN /\ result' = "raised"
                /\ error' = [NoError EXCEPT !.kind = "NetworkXUnfeasible"]
                /\ pc' = "done"
                /\ UNCHANGED linear_order
           ELSE /\ linear_order' = [computed |-> TRUE, value |-> order.value]
                /\ UNCHANGED <<pc, result, error>>
      /\ UNCHANGED <<entry, schemas, response, model_calls, generation_order>>
      /\ UNCHANGED <<graph_vars, setup_vars, prompt_vars>>
      /\ UNCHANGED rest_vars

NextBuilder ==
  \/ \E schema_list \in BoundedSeq(SchemaRows, MaxSchemas) : CallBuilder(schema_list)
  \/ \E env_found \in BOOLEAN, allowed_apps \in {<<>>, <<"gmail">>}, fetched \in BoundedSeq(SchemaRows, MaxSchemas) :
       OutputDag(env_found, allowed_apps, fetched)
  \/ /\ pc = "await_model"
     /\ \E n \in 0..MaxResponseSize : \E m \in 0..(MaxResponseSize - n) :
          \E node_list \in [1..n -> ResponseNodes(MaxResponseSize - n - m)], edge_list \in [1..m -> ResponseEdges] :
            ModelResponds([nodes |-> node_list, edges |-> edge_list])
  \/ \E kind \in {"APIError", "JSONDecodeError"} : ModelFails(kind)
  \/ /\ pc = "await_model"
     /\ \E dag_json \in PartialResponses : ModelRespondsPartial(dag_json)
  \/ Parse
  \/ Validate
  \/ Return
  \/ GetGenerationOrder
  \/ GetLinearOrder

SpecBuilder == InitBuilder /\ [][NextBuilder]_vars

-----------------------------------------------------------------------------
(* Specification of setup_environment: any sequence of runs, each one      *)
(* reading the environment row, calling ScenarioPlanner.plan_environment   *)
(* once and saving the world_markdown of the plan it returns               *)

\* node records of a scene: full ones, one without "instruction", one without "schema_id"
PlanNodes ==
  [id : NodeIds, schema_id : SchemaIds, instruction : {"generate it"}]
    \cup {[id |-> "A", schema_id |-> "gmail/thread"], [id |-> "A", instruction |-> "generate it"]}

\* scene objects with at most `room` nodes; one lacks "name", one lacks "nodes"
PlanScenes(room) ==
  {[name |-> "scene", nodes |-> node_list] : node_list \in BoundedSeq(PlanNodes, room)}
    \cup {[nodes |-> <<>>], [name |-> "scene"]}

RECURSIVE SumNodes(_)
SumNodes(scene_list) ==
  IF scene_list = <<>> THEN 0
  ELSE Len(Get(Head(scene_list), "nodes", <<>>)) + SumNodes(Tail(scene_list))

PlanSize(scene_list) == Len(scene_list) + SumNodes(scene_list)

\* the JSON object of a planner response; world_text = NoneValue leaves the key out
PlanResponse(world_text, scene_list) ==
  IF world_text = NoneValue THEN [scenes |-> scene_list]
  ELSE [world_markdown |-> world_text, scenes |-> scene_list]

InitSetup ==
  /\ dag = NoGraph
  /\ dag2 = NoGraph
  /\ heap = <<>>
  /\ last_op = "init"
  /\ stale = {}
  /\ last_node = Unbound
  /\ BuilderIdle
  /\ SetupIdle
  /\ PromptIdle
  /\ RestIdle

\* setup_environment(tasks, environment_id) up to its first return or the model
\* call that plan_environment issues
SetupEnvironment(environment_id) ==
  LET found == environment_id \in StoredEnvs
      allowed_apps == EnvironmentRow(environment_id).connectors
      fetched == fetch_schemas_for_apps(allowed_apps)
      failed(message) ==
        /\ result' = "error_dict"
        /\ error' = [NoError EXCEPT !.kind = message]
        /\ pc' = "setup_done"
        /\ model_calls' = 0
        /\ schemas' = <<>>
  IN  /\ pc \in {"idle", "setup_done"}
      /\ entry' = "setup_environment"
      /\ env' = environment_id
      /\ existing_world' = IF found THEN world[environment_id] ELSE NoneValue
      /\ plan_json' = Unbound
      /\ plan' = Unbound
      /\ warnings' = <<>>
      /\ IF ~found THEN failed("Environment not found")
         ELSE IF allowed_apps = <<>> THEN failed("No connectors configured for this environment")
         ELSE IF fetched = <<>> THEN failed("No schemas available")
         ELSE /\ schemas' = fetched
              /\ model_calls' = 1
              /\ pc' = "plan_await"
              /\ result' = "none"
              /\ error' = NoError
      /\ UNCHANGED <<world, response, generation_order, linear_order>>
      /\ UNCHANGED <<graph_vars, prompt_vars>>
      /\ UNCHANGED rest_vars

\* the model call raises, or json.loads raises on content that is no JSON
PlannerFails(kind) ==
  /\ pc = "plan_await"
  /\ result' = "raised"
  /\ error' = [NoError EXCEPT !.kind = kind]
  /\ pc' = after_raise(entry)
  /\ UNCHANGED <<entry, schemas, response, model_calls, generation_order, linear_order>>
  /\ UNCHANGED <<graph_vars, setup_vars, prompt_vars>>
  /\ UNCHANGED rest_vars

\* chat.completions.create returns; json.loads gives result
PlannerResponds(result_json) ==
  /\ pc = "plan_await"
  /\ plan_json' = result_json
  /\ pc' = "plan_parse"
  /\ UNCHANGED <<world, env, existing_world, plan, warnings>>
  /\ UNCHANGED <<entry, schemas, response, model_calls, result, error, generation_order, linear_order>>
  /\ UNCHANGED <<graph_vars, prompt_vars>>
  /\ UNCHANGED rest_vars

\* result -> scenes -> EnvironmentPlan
ParsePlan ==
  LET r == parse_plan(plan_json)
  IN  /\ pc = "plan_parse"
      /\ IF r.raised = "none"
           THEN /\ plan' = r.plan
                /\ pc' = "plan_validate"
                /\ UNCHANGED <<result, error>>
           ELSE /\ pc' = after_raise(entry)
                /\ result' = "raised"
                /\ error' = [NoError EXCEPT !.kind = r.raised]
                /\ UNCHANGED plan
      /\ UNCHANGED <<world, env, existing_world, plan_json, warnings>>
      /\ UNCHANGED <<entry, schemas, response, model_calls, generation_order, linear_order>>
      /\ UNCHANGED <<graph_vars, prompt_vars>>
      /\ UNCHANGED rest_vars

\* the schema loop of plan_environment
ValidatePlan ==
  /\ pc = "plan_validate"
  /\ warnings' = plan_warnings(plan, valid_schema_set(schemas), 1)
  /\ pc' = "plan_return"
  /\ UNCHANGED <<world, env, existing_world, plan_json, plan>>
  /\ UNCHANGED <<entry, schemas, response, model_calls, result, error, generation_order, linear_order>>
  /\ UNCHANGED <<graph_vars, prompt_vars>>
  /\ UNCHANGED rest_vars

\* plan_environment returns plan; setup_environment saves plan.world_markdown
\* in the row of environment_id
SaveWorld ==
  /\ pc = "plan_return"
  /\ world' = update_world(world, env, plan.world_markdown)
  /\ pc' = "print"
  /\ UNCHANGED <<env, existing_world, plan_json, plan, warnings>>
  /\ UNCHANGED <<entry, schemas, response, model_calls, result, error, generation_order, linear_order>>
  /\ UNCHANGED <<graph_vars, prompt_vars>>
  /\ UNCHANGED rest_vars

\* plan.to_dict(), the print loop over scenes and nodes, return result
PrintAndReturn ==
  /\ pc = "print"
  /\ IF print_raises(plan)
       THEN /\ result' = "raised"
            /\ error' = [NoError EXCEPT !.kind = "KeyError"]
       ELSE /\ result' = "returned"
            /\ UNCHANGED error
  /\ pc' = "setup_done"
  /\ UNCHANGED <<entry, schemas, response, model_calls, generation_order, linear_order>>
  /\ UNCHANGED <<graph_vars, setup_vars, prompt_vars>>
  /\ UNCHANGED rest_vars

NextSetup ==
  \/ \E environment_id \in EnvironmentIds : SetupEnvironment(environment_id)
  \/ \E kind \in {"APIError", "JSONDecodeError"} : PlannerFails(kind)
  \/ /\ pc = "plan_await"
     /\ \E k \in 0..MaxPlanSize : \E scene_list \in [1..k -> PlanScenes(MaxPlanSize - k)] :
          /\ PlanSize(scene_list) <= MaxPlanSize
          /\ \E world_text \in WorldTexts \cup {NoneValue} :
               PlannerResponds(PlanResponse(world_text, scene_list))
  \/ ParsePlan
  \/ ValidatePlan
  \/ SaveWorld
  \/ PrintAndReturn

SpecSetup == InitSetup /\ [][NextSetup]_vars

-----------------------------------------------------------------------------
(* The two planners side by side: one DAG Builder call, or any sequence of *)
(* setup_environment runs                                                  *)

NextCore == NextBuilder \/ NextSetup

SpecCore == InitSetup /\ [][NextCore]_vars

-----------------------------------------------------------------------------
(* Vocabulary of the properties *)

Compose(R) == R \cup {<<q[1][1], q[2][2]>> : q \in {z \in R \X R : z[1][2] = z[2][1]}}

RECURSIVE TransitiveClosure(_)
TransitiveClosure(R) ==
  LET S == Compose(R) IN IF S = R THEN R ELSE TransitiveClosure(S)

\* some element is related to itself through one or more pairs of R
HasCycle(R) == \E q \in TransitiveClosure(R) : q[1] = q[2]

NodeIdSet(g) == {g.nodes[i].key : i \in 1..Len(g.nodes)}

\* <<source, target>> for every edge of the graph
EdgePairs(g) == {<<g.edges[i].source, g.edges[i].target>> : i \in 1..Len(g.edges)}

\* <<p, n>> for every node n and every p in n.depends_on
DependsPairs(g, h) ==
  UNION {{<<h[g.nodes[i].val.depends_on][k], g.nodes[i].key>> :
            k \in 1..Len(h[g.nodes[i].val.depends_on])} : i \in 1..Len(g.nodes)}

SuppliedKeys == {SchemaKey(schemas[k]) : k \in 1..Len(schemas)}

\* the builder call got past _validate_dag, by returning or by raising
PastValidate == model_calls > 0 /\ pc \in {"return", "returned", "order", "done"}

\* the edges of c are chained head to tail and the last one leads back to the first
IsClosedCycle(c) ==
  /\ c # <<>>
  /\ \A i \in 1..(Len(c) - 1) : c[i][2] = c[i + 1][1]
  /\ c[Len(c)][2] = c[1][1]

LastEdge == dag.edges[Len(dag.edges)]

\* the call had schemas, every depends_on entry names a node, and they form no cycle
WellFormedDependsOn ==
  /\ schemas # <<>>
  /\ \A q \in DependsPairs(dag, heap) : q[1] \in NodeIdSet(dag)
  /\ ~HasCycle(DependsPairs(dag, heap))

-----------------------------------------------------------------------------
(* Properties of the DAG Builder, checked under SpecBuilder *)

\* C1: for every graph _validate_dag accepted, get_linear_order returns each id
\* of dag.nodes exactly once and nothing else, so its length is the node count.
\* (Stated for the calls with a non-empty schema list and a graph that has nodes.)
C1_LinearOrderListsEachNodeOnce ==
  (linear_order.computed /\ schemas # <<>> /\ dag.nodes # <<>>) =>
    /\ Len(linear_order.value) = Len(dag.nodes)
    /\ \A id \in NodeIdSet(dag) : Count(linear_order.value, id) = 1
    /\ \A i \in 1..Len(linear_order.value) : linear_order.value[i] \in NodeIdSet(dag)

\* C2: for every accepted graph, every node n and every p in n.depends_on,
\* p comes strictly before n in get_linear_order.
\* (Stated for the graphs whose depends_on entries all name nodes and form no cycle.)
C2_DependenciesPrecedeInLinearOrder ==
  (linear_order.computed /\ WellFormedDependsOn) =>
    \A q \in DependsPairs(dag, heap) :
      \E i, j \in 1..Len(linear_order.value) :
        i < j /\ linear_order.value[i] = q[1] /\ linear_order.value[j] = q[2]

\* C3: for every accepted graph, get_generation_order puts every id of a node's
\* depends_on in an earlier bucket than the node, so no two nodes of one bucket
\* depend on each other.
\* (Stated for the graphs whose depends_on entries all name nodes and form no cycle.)
C3_DependenciesInEarlierBucket ==
  (generation_order.computed /\ WellFormedDependsOn) =>
    \A q \in DependsPairs(dag, heap) :
      \E a, b \in 1..Len(generation_order.value) :
        a < b /\ Contains(generation_order.value[a], q[1])
              /\ Contains(generation_order.value[b], q[2])

\* C4 as claimed: a returned graph has only supplied schema_ids, and a model
\* response with any node outside the supplied set makes the call raise.
C4_AnyInvalidResponseNodeRaises ==
  /\ result = "returned" =>
       \A i \in 1..Len(dag.nodes) : dag.nodes[i].val.schema_id \in SuppliedKeys
  /\ (PastValidate /\ \E i \in 1..Len(Get(response, "nodes", <<>>)) :
                          Get(response.nodes[i], "schema_id", "") \notin SuppliedKeys)
       => result = "raised" /\ ~generation_order.computed

\* C4 as amended: a returned graph has only supplied schema_ids; the call raises
\* the invalid-schema error, and no order is computed, whenever a node that the
\* parsed graph holds (the last response node of its id) is outside the supplied set.
C4_InvalidGraphNodeRaises ==
  /\ result = "returned" =>
       \A i \in 1..Len(dag.nodes) : dag.nodes[i].val.schema_id \in SuppliedKeys
  /\ (PastValidate /\ \E i \in 1..Len(dag.nodes) : dag.nodes[i].val.schema_id \notin SuppliedKeys)
       => /\ result = "raised"
          /\ error.kind = "invalid_schema"
          /\ ~generation_order.computed
          /\ ~linear_order.computed

\* C4 witness: the call raised on a graph of two nodes, the first of them valid
C4_Witness ==
  /\ result = "raised"
  /\ error.kind = "invalid_schema"
  /\ Len(dag.nodes) = 2
  /\ dag.nodes[1].val.schema_id \in SuppliedKeys

\* C8: every graph _validate_dag accepts has an acyclic depends_on relation,
\* also when no edge records the cycle.
C8_AcceptedGraphsHaveAcyclicDependsOn ==
  (result = "returned" /\ schemas # <<>>) => ~HasCycle(DependsPairs(dag, heap))

\* C9: a graph whose edges contain a directed cycle fails _validate_dag; with
\* every schema valid it fails with the cycle error, and the cycle named there
\* is made of edges of the graph that form a closed cycle.
C9_EdgeCycleRejected ==
  (PastValidate /\ HasCycle(EdgePairs(dag))) =>
    /\ result = "raised"
    /\ (\A i \in 1..Len(dag.nodes) : dag.nodes[i].val.schema_id \in SuppliedKeys) =>
         /\ error.kind = "cycles"
         /\ IsClosedCycle(error.cycles)
         /\ \A i \in 1..Len(error.cycles) : error.cycles[i] \in EdgePairs(dag)

\* C9 witness: the cycle error names a cycle of three edges
C9_Witness ==
  /\ result = "raised"
  /\ error.kind = "cycles"
  /\ Len(error.cycles) = 3

\* C10: a DAG Builder call with an empty schema list fails with "No schemas
\* available" before any model call is issued.
C10_EmptySchemasFailBeforeModelCall ==
  (entry # "none" /\ schemas = <<>>) =>
    /\ model_calls = 0
    /\ result # "returned"
    /\ (entry = "direct" /\ pc = "done") => error.kind = "No schemas available"

-----------------------------------------------------------------------------
(* Properties of the GenerationDAG container, checked under SpecGraph *)

\* C5: with two nodes A and B both in the graph, add_edge(A->B) leaves
\* B.depends_on holding A exactly once, also when the same edge is added a second time.
C5_EdgeBackfillExactlyOnce ==
  (/\ last_op = "add_edge"
   /\ LastEdge.source # LastEdge.target
   /\ DictHas(dag.nodes, LastEdge.source)
   /\ DictHas(dag.nodes, LastEdge.target))
    => Count(DepsOf(dag, heap, LastEdge.target), LastEdge.source) = 1

\* C6: from_dict(to_dict(g)) equals g: same task, same nodes in the same key order
\* with every field equal (depends_on and the attached schema included), same edges.
C6_RoundTripReproducesGraph ==
  last_op = "round_trip" => Deref(dag2, heap) = Deref(dag, heap)

\* C7 as claimed: after any sequence of add_node and add_edge calls, every edge
\* (s->t) whose target t is a node has s in nodes[t].depends_on.
C7_EveryEdgeImpliesDependsOn ==
  \A i \in 1..Len(dag.edges) :
    DictHas(dag.nodes, dag.edges[i].target) =>
      Contains(DepsOf(dag, heap, dag.edges[i].target), dag.edges[i].source)

\* C7 as amended: after any sequence of add_node and add_edge calls, every edge
\* (s->t) whose target t is a node that add_node has not added or replaced after an
\* edge into t was recorded has s in nodes[t].depends_on.
C7_EdgeImpliesDependsOnUnlessReadded ==
  \A i \in 1..Len(dag.edges) :
    (DictHas(dag.nodes, dag.edges[i].target) /\ dag.edges[i].target \notin stale) =>
      Contains(DepsOf(dag, heap, dag.edges[i].target), dag.edges[i].source)

\* C7 witness: add_edge has back-filled its source into a node that also lists a
\* dependency no edge records
C7_Witness ==
  /\ last_op = "add_edge"
  /\ DictHas(dag.nodes, LastEdge.target)
  /\ LastEdge.target \notin stale
  /\ Contains(DepsOf(dag, heap, LastEdge.target), LastEdge.source)
  /\ \E p \in NodeIds :
       /\ Contains(DepsOf(dag, heap, LastEdge.target), p)
       /\ <<p, LastEdge.target>> \notin EdgePairs(dag)

-----------------------------------------------------------------------------
(* Properties of the two planners, checked under SpecCore *)

\* the steps of one invocation, as pairs of positions: start -> model call ->
\* parse -> validate -> return, an exception or an error return ending it at any stage
CallOrder ==
  {<<"idle", "await_model">>, <<"idle", "done">>,
   <<"await_model", "parse">>, <<"await_model", "done">>,
   <<"parse", "validate">>, <<"parse", "done">>,
   <<"validate", "return">>, <<"validate", "done">>,
   <<"return", "returned">>, <<"return", "order">>,
   <<"order", "done">>, <<"returned", "done">>,
   <<"idle", "plan_await">>, <<"idle", "setup_done">>,
   <<"setup_done", "plan_await">>, <<"setup_done", "setup_done">>,
   <<"plan_await", "plan_parse">>, <<"plan_await", "setup_done">>,
   <<"plan_parse", "plan_validate">>, <<"plan_parse", "setup_done">>,
   <<"plan_validate", "plan_return">>,
   <<"plan_return", "print">>, <<"print", "setup_done">>}

\* positions of an invocation that has issued its model call and not yet ended
AfterCall ==
  {"await_model", "parse", "validate", "return", "returned", "order",
   "plan_await", "plan_parse", "plan_validate", "plan_return", "print"}

\* C11: one invocation of build_dag_from_task or plan_environment issues exactly
\* one model call, goes call -> parse -> validate -> return, and issues no second
\* call when the call, the parse or the validation fails.
C11_OneModelCallPerInvocation ==
  [][/\ pc' # pc => <<pc, pc'>> \in CallOrder
     /\ model_calls' <= 1
     /\ pc' \in AfterCall => model_calls' = 1
     /\ (model_calls' # model_calls /\ model_calls' > 0) => pc \in {"idle", "setup_done"}
     /\ (result' = "raised" /\ result # "raised") =>
          /\ model_calls' = 1
          /\ model_calls = 1
          /\ pc' \in {"done", "setup_done"}]_vars

\* C11 witness: the builder's validation failed after the one call it issued
C11_Witness ==
  /\ entry = "direct"
  /\ result = "raised"
  /\ error.kind = "invalid_schema"
  /\ model_calls = 1
  /\ pc = "done"

-----------------------------------------------------------------------------
(* Properties of the DAG Builder on responses outside the documented shape, *)
(* checked under SpecBuilder                                                *)

\* the JSON object lacks the nodes or the edges list, or one of its nodes lacks
\* "id" or "schema_id", or one of its edges lacks "source" or "target"
LacksExpectedShape(dag_json) ==
  \/ {"nodes", "edges"} \ DOMAIN dag_json # {}
  \/ \E i \in 1..Len(Get(dag_json, "nodes", <<>>)) :
       {"id", "schema_id"} \ DOMAIN dag_json.nodes[i] # {}
  \/ \E i \in 1..Len(Get(dag_json, "edges", <<>>)) :
       {"source", "target"} \ DOMAIN dag_json.edges[i] # {}

\* C12: a model response that is not of the expected JSON shape makes
\* build_dag_from_task fail: no graph, partial or defaulted, is returned for it.
\* (Stated for the calls with a non-empty schema list.)
C12_MalformedResponseReturnsNoGraph ==
  (schemas # <<>> /\ LacksExpectedShape(response)) => result # "returned"

-----------------------------------------------------------------------------
(* Properties of plan_environment and setup_environment *)

\* the scene objects of the planner response
ResponseScenes == Get(plan_json, "scenes", <<>>)

\* <<i, j>> for node j of scene i of the planner response
ResponseSceneNodes ==
  {q \in (1..Len(ResponseScenes)) \X (1..MaxPlanSize + 1) :
     q[2] <= Len(Get(ResponseScenes[q[1]], "nodes", <<>>))}

\* the scene nodes of the response whose schema_id is outside the supplied set
InvalidSceneNodes ==
  {q \in ResponseSceneNodes :
     Get(ResponseScenes[q[1]].nodes[q[2]], "schema_id", "") \notin SuppliedKeys}

\* plan_environment built its plan and got through its validation loop
PlanReturned ==
  entry = "setup_environment" /\ pc \in {"plan_return", "print", "setup_done"} /\ plan # Unbound

\* the plan holds every scene of the response, in order, with its nodes as they came
PlanKeepsResponse ==
  /\ Len(plan.scenes) = Len(ResponseScenes)
  /\ \A i \in 1..Len(ResponseScenes) :
       /\ plan.scenes[i].name = ResponseScenes[i].name
       /\ plan.scenes[i].nodes = Get(ResponseScenes[i], "nodes", <<>>)

\* what C13 says of the planner: once the response is parsed into a plan, the
\* validation never raises; it logs one warning per scene node outside the supplied
\* set, and the plan goes back with all scenes and nodes of the response
PlannerToleratesInvalidSchema ==
  /\ (entry = "setup_environment" /\ result = "raised") => error.kind # "invalid_schema"
  /\ (entry = "setup_environment" /\ pc = "setup_done" /\ plan_json # Unbound /\ plan = Unbound)
       => \E i \in 1..Len(ResponseScenes) : "name" \notin DOMAIN ResponseScenes[i]
  /\ PlanReturned =>
       /\ Len(warnings) = Cardinality(InvalidSceneNodes)
       /\ \A q \in InvalidSceneNodes : \E k \in 1..Len(warnings) :
            /\ warnings[k].schema_id = Get(ResponseScenes[q[1]].nodes[q[2]], "schema_id", "")
            /\ warnings[k].node = Get(ResponseScenes[q[1]].nodes[q[2]], "id", NoneValue)
       /\ PlanKeepsResponse

\* C13 as claimed: the planner tolerates a scene node outside the supplied set,
\* and any node outside the set in a DAG Builder response is fatal.
C13_InvalidSchemaWarnsPlannerFailsBuilder ==
  /\ PlannerToleratesInvalidSchema
  /\ (entry \in {"direct", "output_dag"} /\ PastValidate
        /\ \E i \in 1..Len(Get(response, "nodes", <<>>)) :
             Get(response.nodes[i], "schema_id", "") \notin SuppliedKeys)
       => result = "raised"

\* C13 as amended: the planner tolerates a scene node outside the supplied set,
\* and a node outside the set that the DAG Builder's parsed graph holds (the last
\* response node of its id) is fatal.
C13_InvalidSchemaWarnsPlannerFailsHeldNode ==
  /\ PlannerToleratesInvalidSchema
  /\ (entry \in {"direct", "output_dag"} /\ PastValidate
        /\ \E i \in 1..Len(dag.nodes) : dag.nodes[i].val.schema_id \notin SuppliedKeys)
       => result = "raised" /\ error.kind = "invalid_schema"

\* C13 witness: a plan of two nodes, one of them outside the supplied set, was
\* returned with one warning
C13_Witness ==
  /\ PlanReturned
  /\ result = "returned"
  /\ Len(warnings) = 1
  /\ Cardinality(ResponseSceneNodes) = 2

\* the entity ids a world_markdown text declares
Entities(world_text) ==
  IF world_text = "# acme" THEN {"acme"}
  ELSE IF world_text = "# acme beta" THEN {"acme", "beta"}
  ELSE {}

\* C14: given a non-empty existing_world, the world_markdown of the plan that
\* plan_environment returns, and the world setup_environment then stores for the
\* environment, still declares every entity of existing_world.
C14_StoredWorldKeepsEntities ==
  (PlanReturned /\ pc \in {"print", "setup_done"} /\ existing_world \notin {NoneValue, ""})
    => /\ Entities(existing_world) \subseteq Entities(plan.world_markdown)
       /\ Entities(existing_world) \subseteq Entities(world[env])

\* positions inside plan_environment
InPlanner == {"plan_await", "plan_parse", "plan_validate", "plan_return"}

\* C15: a successful setup_environment(E) leaves plan.world_markdown stored for E;
\* a run hands the value stored for its environment to plan_environment as
\* existing_world; only the save step of a run writes the store, and only the row
\* of the run's environment; no step of plan_environment writes it.
C15_WorldStoredPerEnvironment ==
  [][/\ (pc = "print" /\ result' = "returned") => world'[env'] = plan'.world_markdown
     /\ pc' \in InPlanner => existing_world' = world'[env']
     /\ \A e \in StoredEnvs :
          world'[e] # world[e] => (e = env /\ pc = "plan_return" /\ pc' = "print")
     /\ (pc \in InPlanner /\ pc' \in InPlanner) => world' = world]_vars

\* C15 witness: a later run on env-1 gets the world an earlier run stored for it,
\* while env-2 holds another world
C15_Witness ==
  /\ pc = "plan_await"
  /\ env = "env-1"
  /\ existing_world = "# acme beta"
  /\ world["env-1"] = "# acme beta"
  /\ world["env-2"] = "# acme"

-----------------------------------------------------------------------------
(* Specification of the prompt builders: fetch_existing_data reads the     *)
(* rows of an environment, build_dag_prompt and build_scenario_prompt      *)
(* format them into the existing-data section of their prompts.            *)

\* json_data of the airtable tables an environment may hold
TableData ==
  { [name |-> "Leads", fields |-> "fields-of-leads", records |-> "records-of-leads"],
    [name |-> "", title |-> "Deals"] }

\* rows of artificial_data as the query returns them: row i has id i
ArtificialData(data_list) ==
  [i \in 1..Len(data_list) |->
     [id |-> i, app |-> "airtable", component_name |-> "table", json_data |-> data_list[i]]]

\* fetch_existing_data: every row with the 'records' key of its json_data removed
fetch_existing_data(rows) ==
  [i \in 1..Len(rows) |->
     [id |-> rows[i].id,
      app |-> rows[i].app,
      component_name |-> rows[i].component_name,
      json_data |-> [k \in DOMAIN rows[i].json_data \ {"records"} |-> rows[i].json_data[k]]]]

\* the whole list instead of a slice
first_records_unsliced(record_list) == record_list

\* existing_data[:10]
first_records(record_list) ==
  SubSeq(record_list, 1, IF Len(record_list) < PromptRecordLimit THEN Len(record_list) ELSE PromptRecordLimit)

\* Python truthiness of a string or None
Truthy(v) == v \notin {NoneValue, ""}

\* data.get('name') or data.get('title') or data.get('subject') or 'unnamed'
record_name(data) ==
  IF Truthy(Get(data, "name", NoneValue)) THEN data["name"]
  ELSE IF Truthy(Get(data, "title", NoneValue)) THEN data["title"]
  ELSE IF Truthy(Get(data, "subject", NoneValue)) THEN data["subject"]
  ELSE "unnamed"

\* the line '- {app}/{component}: id="{record_id}" name="{name}"'
entry_line(record) ==
  [line |-> "entry",
   app |-> record.app,
   component |-> record.component_name,
   id |-> Get(record, "id", "unknown"),
   name |-> record_name(Get(record, "json_data", EmptyObject))]

\* the line '  fields: {json.dumps(data["fields"])}'
fields_line(record) == [line |-> "fields", json |-> record.json_data["fields"]]

RECURSIVE dag_record_lines(_, _)
\* the loop of build_dag_prompt over the sliced records, from index i on
dag_record_lines(record_list, i) ==
  IF i > Len(record_list) THEN <<>>
  ELSE <<entry_line(record_list[i])>>
       \o (IF "fields" \in DOMAIN Get(record_list[i], "json_data", EmptyObject)
           THEN <<fields_line(record_list[i])>> ELSE <<>>)
       \o dag_record_lines(record_list, i + 1)

\* existing_text of build_dag_prompt, as its sequence of lines
build_dag_prompt(record_list) ==
  IF record_list = <<>> THEN <<>>
  ELSE <<[line |-> "header", text |-> "EXISTING DATA (set update_existing_id to add to these):"]>>
       \o dag_record_lines(first_records(record_list), 1)

\* existing_text of build_scenario_prompt, as its sequence of lines
build_scenario_prompt(record_list) ==
  IF record_list = <<>> THEN <<>>
  ELSE <<[line |-> "header", text |-> "EXISTING DATA IN ENVIRONMENT:"]>>
       \o [i \in 1..Len(first_records(record_list)) |-> entry_line(first_records(record_list)[i])]

InitPrompt ==
  /\ \E data_list \in BoundedSeq(TableData, MaxExisting) :
       existing_data = fetch_existing_data(ArtificialData(data_list))
  /\ dag_prompt = Unbound
  /\ scenario_prompt = Unbound
  /\ dag = NoGraph
  /\ dag2 = NoGraph
  /\ heap = <<>>
  /\ last_op = "init"
  /\ stale = {}
  /\ last_node = Unbound
  /\ BuilderIdle
  /\ SetupIdle
  /\ RestIdle

BuildDagPrompt ==
  /\ dag_prompt = Unbound
  /\ dag_prompt' = [existing_text |-> build_dag_prompt(existing_data)]
  /\ UNCHANGED <<existing_data, scenario_prompt>>
  /\ UNCHANGED <<graph_vars, builder_vars, setup_vars>>
  /\ UNCHANGED rest_vars

BuildScenarioPrompt ==
  /\ scenario_prompt = Unbound
  /\ scenario_prompt' = [existing_text |-> build_scenario_prompt(existing_data)]
  /\ UNCHANGED <<existing_data, dag_prompt>>
  /\ UNCHANGED <<graph_vars, builder_vars, setup_vars>>
  /\ UNCHANGED rest_vars

NextPrompt == BuildDagPrompt \/ BuildScenarioPrompt

SpecPrompt == InitPrompt /\ [][NextPrompt]_vars

\* the lines of a prompt section of one kind, in order
LinesOf(existing_text, kind) == SelectSeq(existing_text, LAMBDA l : l.line = kind)

\* the number of records a summary lists
ListedCount == IF Len(existing_data) < 10 THEN Len(existing_data) ELSE 10

\* a section lists records 1..ListedCount in input order after one header line, and nothing else
ListsFirstTen(existing_text) ==
  IF existing_data = <<>> THEN existing_text = <<>>
  ELSE /\ existing_text[1].line = "header"
       /\ Len(LinesOf(existing_text, "header")) = 1
       /\ Len(LinesOf(existing_text, "entry")) = ListedCount
       /\ \A i \in 1..ListedCount :
            /\ LinesOf(existing_text, "entry")[i].id = existing_data[i].id
            /\ LinesOf(existing_text, "entry")[i].name = record_name(existing_data[i].json_data)
       /\ \A l \in 1..Len(existing_text) :
            existing_text[l].line = "entry" => existing_text[l].id \in 1..ListedCount

\* C16: the existing-data section of the builder prompt and of the planner prompt
\* lists the first 10 records of existing_data in input order and none at index 10
\* or later; with 10 or fewer records it lists all, with none there is no section.
C16_PromptListsFirstTenRecords ==
  /\ dag_prompt # Unbound => ListsFirstTen(dag_prompt.existing_text)
  /\ scenario_prompt # Unbound => ListsFirstTen(scenario_prompt.existing_text)

\* C16 witness: both prompts built for an environment with more than 10 records
C16_Witness ==
  /\ Len(existing_data) > 10
  /\ dag_prompt # Unbound
  /\ scenario_prompt # Unbound
  /\ Len(LinesOf(dag_prompt.existing_text, "entry")) = 10

\* <<i, j>> for node j of scene i of the plan plan_environment built
PlanSceneNodes ==
  {q \in (1..Len(plan.scenes)) \X (1..MaxPlanSize + 1) : q[2] <= Len(plan.scenes[q[1]].nodes)}

\* C17: in every EnvironmentPlan plan_environment returns, no two nodes, of one
\* scene or of different scenes, share an id.
C17_PlanNodeIdsUnique ==
  PlanReturned =>
    \A p, q \in PlanSceneNodes :
      (p # q /\ "id" \in DOMAIN plan.scenes[p[1]].nodes[p[2]]
             /\ "id" \in DOMAIN plan.scenes[q[1]].nodes[q[2]])
        => plan.scenes[p[1]].nodes[p[2]].id # plan.scenes[q[1]].nodes[q[2]].id

\* C18: get_generation_order returns buckets only for a graph whose dependency
\* relation, edges and depends_on entries together, has no cycle.
C18_BucketsOnlyForAcyclicDependencies ==
  generation_order.computed => ~HasCycle(EdgePairs(dag) \cup DependsPairs(dag, heap))

\* C19: a setup_environment run that fails (environment not found, no connectors,
\* no schemas, or an exception) leaves the world stored for its environment as it
\* was when the run read it, and in the first three cases issues no model call.
C19_FailedRunPersistsNothing ==
  (entry = "setup_environment" /\ pc = "setup_done" /\ result \in {"raised", "error_dict"})
    => /\ env \in StoredEnvs => world[env] = existing_world
       /\ result = "error_dict" => model_calls = 0

\* the node stored under id, with its depends_on list in place of the list's address
NodeOf(g, h, id) == [DictGet(g.nodes, id) EXCEPT !.depends_on = h[@]]

\* the ids a graph's nodes are stored under
StoredIds(g) == {g.nodes[i].key : i \in 1..Len(g.nodes)}

\* C20: add_node never raises on a duplicate id; after it, nodes has one entry per
\* distinct id, the id of the added node maps to that node as a whole (depends_on
\* included), and every other id maps to the node it mapped to before.
C20_AddNodeLastWriteWins ==
  [][last_op' = "add_node" =>
       /\ Cardinality(StoredIds(dag')) = Len(dag'.nodes)
       /\ StoredIds(dag') = StoredIds(dag) \cup {last_node'.id}
       /\ NodeOf(dag', heap', last_node'.id) = last_node'
       /\ \A id \in StoredIds(dag) \ {last_node'.id} :
            NodeOf(dag', heap', id) = NodeOf(dag, heap, id)]_vars

\* C20 witness: add_node has replaced the node stored first, which an edge had
\* back-filled, by a node without dependencies, while a second node is stored
C20_Witness ==
  /\ last_op = "add_node"
  /\ Len(dag.nodes) = 2
  /\ dag.nodes[1].key = last_node.id
  /\ last_node.id \in stale
  /\ DepsOf(dag, heap, last_node.id) = <<>>

\* every stored node of a graph with its depends_on list, keyed by position
NodesOf(g, h) == Deref(g, h).nodes

\* C21: an add_edge whose target is no node appends the edge and changes no node's
\* depends_on; an add_node stores its node with the node's own depends_on and
\* leaves the edges alone, also when an edge into its id is already recorded, so
\* the node depends on the edge's source only if its own list names it.
C21_EdgeToMissingTargetNoBackfill ==
  [][/\ last_op' = "add_edge" =>
          /\ Len(dag'.edges) = Len(dag.edges) + 1
          /\ SubSeq(dag'.edges, 1, Len(dag.edges)) = dag.edges
     /\ (last_op' = "add_edge" /\ ~DictHas(dag'.nodes, LastEdge'.target)) =>
          NodesOf(dag', heap') = NodesOf(dag, heap)
     /\ last_op' = "add_node" =>
          /\ dag'.edges = dag.edges
          /\ DepsOf(dag', heap', last_node'.id) = last_node'.depends_on]_vars

\* C21 witness: add_edge has recorded an edge into an id that is no node, next to a
\* node that lists a dependency
C21_Witness ==
  /\ last_op = "add_edge"
  /\ ~DictHas(dag.nodes, LastEdge.target)
  /\ \E i \in 1..Len(dag.nodes) : NodesOf(dag, heap)[i].val.depends_on # <<>>

\* positions, in insertion order, of the parsed graph's nodes outside the supplied set
InvalidNodes == {i \in 1..Len(dag.nodes) : dag.nodes[i].val.schema_id \notin SuppliedKeys}

\* C22: for a parsed graph with a node of invalid schema_id and a dependency cycle,
\* _validate_dag raises the invalid-schema error; it names the first offending
\* node in insertion order and the full valid set, and reports no cycle.
C22_SchemaCheckBeforeCycleCheck ==
  (PastValidate /\ InvalidNodes # {} /\ HasCycle(EdgePairs(dag) \cup DependsPairs(dag, heap)))
    => /\ result = "raised"
       /\ error.kind = "invalid_schema"
       /\ \E i \in InvalidNodes :
            /\ \A j \in InvalidNodes : i <= j
            /\ error.node_id = dag.nodes[i].key
            /\ error.schema_id = dag.nodes[i].val.schema_id
       /\ {error.valid[k] : k \in 1..Len(error.valid)} = SuppliedKeys
       /\ error.cycles = <<>>

\* C22 witness: a graph with an edge cycle whose second node is the invalid one was
\* rejected with the schema error
C22_Witness ==
  /\ result = "raised"
  /\ error.kind = "invalid_schema"
  /\ HasCycle(EdgePairs(dag))
  /\ Len(dag.nodes) = 2
  /\ error.node_id = dag.nodes[2].key
  /\ schemas # <<>>

\* the ids in bucket k of the computed generation order
Bucket(k) == {generation_order.value[k][i] : i \in 1..Len(generation_order.value[k])}

\* the ids in the buckets before bucket k
EarlierBuckets(k) == UNION {Bucket(j) : j \in 1..(k - 1)}

\* the ids a node id depends on, by an edge or by a depends_on entry
DependenciesOf(id) == {q[1] : q \in {r \in EdgePairs(dag) \cup DependsPairs(dag, heap) : r[2] = id}}

\* C23: for an accepted graph the buckets of get_generation_order partition the
\* node ids, and bucket k holds exactly the nodes outside the earlier buckets whose
\* dependencies all lie in the earlier buckets.
C23_BucketsPartitionAndAreMaximal ==
  generation_order.computed =>
    /\ UNION {Bucket(k) : k \in 1..Len(generation_order.value)} = StoredIds(dag)
    /\ \A k \in 1..Len(generation_order.value) :
         /\ Len(generation_order.value[k]) = Cardinality(Bucket(k))
         /\ Bucket(k) = {id \in StoredIds(dag) \ EarlierBuckets(k) :
                           DependenciesOf(id) \subseteq EarlierBuckets(k)}

-----------------------------------------------------------------------------
(* The state store of the agent server: the artificial_data table, read and *)
(* written by the agent's tools (fetch/update/delete/insert_synthetic_data), *)
(* the state endpoints (get_state_item, list_state_items, reset_state) and  *)
(* the sandbox's state_helpers. JSON values carry their Python type:        *)
(* [str |-> text], [obj |-> record] (a dict) and [arr |-> sequence] (a      *)
(* list).                                                                   *)

Str(text) == [str |-> text]
Obj(fields) == [obj |-> fields]
Arr(items) == [arr |-> items]

\* isinstance(value, dict), isinstance(value, list)
IsObj(value) == "obj" \in DOMAIN value
IsArr(value) == "arr" \in DOMAIN value

\* isinstance(segment, int)
IsInt(segment) == "int" \in DOMAIN segment

\* environment ids of the callers
StoreEnvs == {"env-1", "env-2"}

\* the schemas table of the agent server: one schema, for gmail/thread
ThreadStructure == Obj([emails |-> Arr(<<Obj([subject |-> Str("string")])>>)])

\* rows of the schemas table for (app, component_name)
StoredSchemas(app, component_name) ==
  IF app = "gmail" /\ component_name = "thread" THEN <<[schema |-> ThreadStructure]>> ELSE <<>>

StoreApps == {"gmail", "slack"}

\* json_data arguments: one matching the schema, one whose email lacks subject,
\* one without emails, one that is no object
ThreadDoc == Obj([emails |-> Arr(<<Obj([subject |-> Str("s")])>>)])
InsertDocs ==
  {ThreadDoc, Obj([emails |-> Arr(<<Obj([body |-> Str("s")])>>)]), Obj([subject |-> Str("s")]), Str("s")}

\* key arguments of update_synthetic_data, as key.split("."); "sup2" stands for
\* the one-character part U+00B2 (superscript two), a digit that is no numeral
KeyPaths ==
  {<<"">>, <<"emails">>, <<"emails", "0">>, <<"emails", "0", "subject">>,
   <<"emails", "1", "subject">>, <<"emails", "", "subject">>, <<"subject">>,
   <<"emails", "subject">>, <<"emails", "0", "subject", "0">>, <<"sup2">>, <<"emails", "sup2">>}

\* str.isdigit()
isdigit(part) == part \in {"0", "1", "sup2"}

\* int(part): the numeral's value, ValueError for a digit that is no decimal numeral
int(part) ==
  IF part = "0" THEN [raised |-> "none", value |-> 0]
  ELSE IF part = "1" THEN [raised |-> "none", value |-> 1]
  ELSE [raised |-> "ValueError", value |-> 0]

RECURSIVE parse_parts(_, _, _)
\* the loop of parse_key_path over parts, from index i on, result so far acc
parse_parts(parts, i, acc) ==
  IF i > Len(parts) THEN [raised |-> "none", path |-> acc]
  ELSE IF parts[i] = "" THEN [raised |-> "KeyPathError", path |-> <<>>]
  ELSE IF isdigit(parts[i])
    THEN IF int(parts[i]).raised # "none"
           THEN [raised |-> int(parts[i]).raised, path |-> <<>>]
           ELSE parse_parts(parts, i + 1, Append(acc, [int |-> int(parts[i]).value]))
    ELSE parse_parts(parts, i + 1, Append(acc, [key |-> parts[i]]))

\* parse_key_path(key), key given as key.split(".")
parse_key_path(parts) ==
  IF parts = <<"">> THEN [raised |-> "KeyPathError", path |-> <<>>]
  ELSE parse_parts(parts, 1, <<>>)

\* current[segment] for a segment that validate_key_exists accepted
Item(current, segment) ==
  IF IsObj(current) THEN current.obj[segment.key] ELSE current.arr[segment.int + 1]

RECURSIVE validate_key_exists(_, _, _)
\* validate_key_exists(data, path) from segment i on: the exception it raises, "none" if none
validate_key_exists(current, path, i) ==
  IF i > Len(path) THEN "none"
  ELSE IF IsObj(current)
    THEN IF IsInt(path[i]) THEN "KeyPathError"
         ELSE IF path[i].key \notin DOMAIN current.obj THEN "KeyPathError"
         ELSE validate_key_exists(Item(current, path[i]), path, i + 1)
  ELSE IF IsArr(current)
    THEN IF ~IsInt(path[i]) THEN "KeyPathError"
         ELSE IF path[i].int < 0 \/ path[i].int >= Len(current.arr) THEN "KeyPathError"
         ELSE validate_key_exists(Item(current, path[i]), path, i + 1)
  ELSE "KeyPathError"

RECURSIVE set_nested_value(_, _, _, _)
\* set_nested_value(data, path, value): the copy with the value at path, from segment i on
set_nested_value(data, path, i, value) ==
  IF i > Len(path) THEN value
  ELSE IF IsObj(data)
    THEN Obj([k \in DOMAIN data.obj \cup {path[i].key} |->
               IF k = path[i].key
                 THEN IF i = Len(path) THEN value
                      ELSE set_nested_value(data.obj[k], path, i + 1, value)
                 ELSE data.obj[k]])
    ELSE Arr([data.arr EXCEPT ![path[i].int + 1] = set_nested_value(@, path, i + 1, value)])

\* a validation that accepts every json_data
check_structure_accepts_all(data_part, schema_part) == TRUE

RECURSIVE check_structure(_, _)
\* validate_against_schema: TRUE when check_structure raises nothing
check_structure(data_part, schema_part) ==
  IF IsObj(schema_part)
    THEN /\ IsObj(data_part)
         /\ \A key \in DOMAIN schema_part.obj :
              /\ key \in DOMAIN data_part.obj
              /\ check_structure(data_part.obj[key], schema_part.obj[key])
  ELSE IF IsArr(schema_part) /\ Len(schema_part.arr) > 0
    THEN /\ IsArr(data_part)
         /\ \A i \in 1..Len(data_part.arr) : check_structure(data_part.arr[i], schema_part.arr[1])
  ELSE TRUE

RECURSIVE Mentions(_, _)
\* pattern.search(json.dumps(json_data)) for a pattern that is one word
Mentions(json, word) ==
  IF IsObj(json) THEN \E k \in DOMAIN json.obj : k = word \/ Mentions(json.obj[k], word)
  ELSE IF IsArr(json) THEN \E i \in 1..Len(json.arr) : Mentions(json.arr[i], word)
  ELSE json.str = word

\* a query without the environment filter
Rows_any_environment(table, id, environment_id) == SelectSeq(table, LAMBDA row : row.id = id)

\* .eq("id", id).eq("environment_id", environment_id)
Rows(table, id, environment_id) ==
  SelectSeq(table, LAMBDA row : row.id = id /\ row.environment_id = environment_id)

\* .eq("environment_id", environment_id), with .eq("app", app) unless app is None
RowsOfApp(table, app, environment_id) ==
  SelectSeq(table, LAMBDA row : row.environment_id = environment_id /\ (app = NoneValue \/ row.app = app))

\* .update({"json_data": json_data}).eq("id", id).eq("environment_id", environment_id)
UpdateRows(table, id, environment_id, json_data) ==
  [i \in 1..Len(table) |->
     IF table[i].id = id /\ table[i].environment_id = environment_id
       THEN [table[i] EXCEPT !.json_data = json_data]
       ELSE table[i]]

\* .delete().eq("id", id).eq("environment_id", environment_id)
DeleteRows(table, id, environment_id) ==
  SelectSeq(table, LAMBDA row : ~(row.id = id /\ row.environment_id = environment_id))

\* .delete().eq("environment_id", environment_id)
DeleteEnvironment(table, environment_id) ==
  SelectSeq(table, LAMBDA row : row.environment_id # environment_id)

\* .insert({...}): the new row gets the next id
NewRow(app, component_name, json_data, environment_id) ==
  [id |-> next_id, environment_id |-> environment_id, app |-> app,
   component_name |-> component_name, json_data |-> json_data]

Returned(row_list) == [kind |-> "returned", error |-> "none", rows |-> row_list]
Raised(exception) == [kind |-> "raised", error |-> exception, rows |-> <<>>]

\* an operation that leaves the table alone
Reads(op, outcome) ==
  /\ store_op' = op
  /\ store_result' = outcome
  /\ UNCHANGED <<artificial_data, next_id>>
  /\ UNCHANGED <<planner_vars, loop_vars, race_vars, pipeline_vars>>

\* an operation that updates or deletes rows of the table
Writes(op, outcome, table) ==
  /\ store_op' = op
  /\ store_result' = outcome
  /\ artificial_data' = table
  /\ UNCHANGED next_id
  /\ UNCHANGED <<planner_vars, loop_vars, race_vars, pipeline_vars>>

\* an operation that inserts a row
Inserts(op, row) ==
  /\ next_id <= MaxRecords
  /\ store_op' = op
  /\ store_result' = Returned(<<row>>)
  /\ artificial_data' = Append(artificial_data, row)
  /\ next_id' = next_id + 1
  /\ UNCHANGED <<planner_vars, loop_vars, race_vars, pipeline_vars>>

InitStore ==
  /\ StoreIdle
  /\ LoopIdle
  /\ RaceIdle
  /\ PipelineIdle
  /\ dag = NoGraph
  /\ dag2 = NoGraph
  /\ heap = <<>>
  /\ last_op = "init"
  /\ stale = {}
  /\ last_node = Unbound
  /\ BuilderIdle
  /\ SetupIdle
  /\ PromptIdle

\* the agent's tool fetch_synthetic_data(ctx, app, search_pattern)
FetchSyntheticData(thread_id, app, search_pattern) ==
  LET op == [name |-> "fetch_synthetic_data", environment_id |-> thread_id,
             app |-> app, search_pattern |-> search_pattern]
      data == RowsOfApp(artificial_data, app, thread_id)
  IN  IF search_pattern = NoneValue THEN Reads(op, Returned(data))
      ELSE IF search_pattern = "(" THEN Reads(op, Raised("ValueError"))
      ELSE Reads(op, Returned(SelectSeq(data, LAMBDA record : Mentions(record.json_data, search_pattern))))

\* the agent's tool update_synthetic_data(ctx, id, key, value)
UpdateSyntheticData(thread_id, id, key, value) ==
  LET op == [name |-> "update_synthetic_data", environment_id |-> thread_id,
             id |-> id, key |-> key, value |-> value]
      data == Rows(artificial_data, id, thread_id)
      parsed == parse_key_path(key)
      updated == UpdateRows(artificial_data, id, thread_id,
                            set_nested_value(data[1].json_data, parsed.path, 1, value))
  IN  IF data = <<>> THEN Reads(op, Raised("RecordNotFoundError"))
      ELSE IF parsed.raised # "none" THEN Reads(op, Raised(parsed.raised))
      ELSE IF validate_key_exists(data[1].json_data, parsed.path, 1) # "none"
        THEN Reads(op, Raised(validate_key_exists(data[1].json_data, parsed.path, 1)))
      ELSE Writes(op, Returned(Rows(updated, id, thread_id)), updated)

\* the agent's tool delete_synthetic_data(ctx, id)
DeleteSyntheticData(thread_id, id) ==
  Writes([name |-> "delete_synthetic_data", environment_id |-> thread_id, id |-> id],
         Returned(Rows(artificial_data, id, thread_id)),
         DeleteRows(artificial_data, id, thread_id))

\* the agent's tool insert_synthetic_data(ctx, app, component_name, json_data)
InsertSyntheticData(thread_id, app, component_name, json_data) ==
  LET op == [name |-> "insert_synthetic_data", environment_id |-> thread_id,
             app |-> app, component_name |-> component_name, json_data |-> json_data]
      schema_data == StoredSchemas(app, component_name)
  IN  IF schema_data = <<>> THEN Reads(op, Raised("ValueError"))
      ELSE IF ~check_structure(json_data, schema_data[1].schema)
        THEN Reads(op, Raised("SchemaValidationError"))
      ELSE Inserts(op, NewRow(app, component_name, json_data, thread_id))

\* GET /environment/{environment_id}/state/{id}
GetStateItem(environment_id, id) ==
  LET op == [name |-> "get_state_item", environment_id |-> environment_id, id |-> id]
      data == Rows(artificial_data, id, environment_id)
  IN  IF data = <<>> THEN Reads(op, Raised("HTTPException"))
      ELSE Reads(op, Returned(<<data[1]>>))

\* str.lower() of a component name
lower(component_name) == IF component_name = "Thread" THEN "thread" ELSE component_name

\* GET /environment/{environment_id}/state
ListStateItems(environment_id, app, component_name) ==
  Reads([name |-> "list_state_items", environment_id |-> environment_id,
         app |-> app, component_name |-> component_name],
        Returned(SelectSeq(RowsOfApp(artificial_data, app, environment_id),
                           LAMBDA row : component_name = NoneValue
                                          \/ row.component_name = lower(component_name))))

\* POST /environment/{environment_id}/state/reset
ResetState(environment_id) ==
  Writes([name |-> "reset_state", environment_id |-> environment_id],
         [kind |-> "returned", error |-> "none", rows |-> <<>>,
          deleted_count |-> Len(RowsOfApp(artificial_data, NoneValue, environment_id))],
         DeleteEnvironment(artificial_data, environment_id))

\* state_helpers.get_state(record_id) in the sandbox of ENVIRONMENT_ID
GetState(ENVIRONMENT_ID, record_id) ==
  LET op == [name |-> "get_state", environment_id |-> ENVIRONMENT_ID, id |-> record_id]
      data == Rows(artificial_data, record_id, ENVIRONMENT_ID)
  IN  IF Len(data) # 1 THEN Reads(op, Raised("APIError"))
      ELSE Reads(op, Returned(data))

\* state_helpers.query_state(app, component_name)
QueryState(ENVIRONMENT_ID, app, component_name) ==
  Reads([name |-> "query_state", environment_id |-> ENVIRONMENT_ID,
         app |-> app, component_name |-> component_name],
        Returned(SelectSeq(RowsOfApp(artificial_data, app, ENVIRONMENT_ID),
                           LAMBDA row : component_name = NoneValue
                                          \/ row.component_name = component_name)))

\* state_helpers.insert_state(app, component_name, json_data)
InsertState(ENVIRONMENT_ID, app, component_name, json_data) ==
  Inserts([name |-> "insert_state", environment_id |-> ENVIRONMENT_ID,
           app |-> app, component_name |-> component_name, json_data |-> json_data],
          NewRow(app, component_name, json_data, ENVIRONMENT_ID))

\* state_helpers.update_state(record_id, json_data)
UpdateState(ENVIRONMENT_ID, record_id, json_data) ==
  LET op == [name |-> "update_state", environment_id |-> ENVIRONMENT_ID,
             id |-> record_id, json_data |-> json_data]
      updated == UpdateRows(artificial_data, record_id, ENVIRONMENT_ID, json_data)
  IN  IF Rows(artificial_data, record_id, ENVIRONMENT_ID) = <<>>
        THEN Reads(op, Raised("IndexError"))
        ELSE Writes(op, Returned(<<Rows(updated, record_id, ENVIRONMENT_ID)[1]>>), updated)

\* state_helpers.delete_state(record_id)
DeleteState(ENVIRONMENT_ID, record_id) ==
  Writes([name |-> "delete_state", environment_id |-> ENVIRONMENT_ID, id |-> record_id],
         Returned(<<>>),
         DeleteRows(artificial_data, record_id, ENVIRONMENT_ID))

\* ids a caller may name: those handed out so far and the next one
RecordIds == 1..MaxRecords

NextStore ==
  \/ \E e \in StoreEnvs, app \in StoreApps, search_pattern \in {NoneValue, "draft", "("} :
       FetchSyntheticData(e, app, search_pattern)
  \/ \E e \in StoreEnvs, id \in RecordIds, key \in KeyPaths :
       UpdateSyntheticData(e, id, key, Str("draft"))
  \/ \E e \in StoreEnvs, id \in RecordIds : DeleteSyntheticData(e, id)
  \/ \E e \in StoreEnvs, app \in StoreApps, json_data \in InsertDocs :
       InsertSyntheticData(e, app, "thread", json_data)
  \/ \E e \in StoreEnvs, id \in RecordIds : GetStateItem(e, id)
  \/ \E e \in StoreEnvs, app \in StoreApps \cup {NoneValue}, component_name \in {NoneValue, "Thread"} :
       ListStateItems(e, app, component_name)
  \/ \E e \in StoreEnvs : ResetState(e)
  \/ \E e \in StoreEnvs, id \in RecordIds : GetState(e, id)
  \/ \E e \in StoreEnvs, app \in StoreApps, component_name \in {NoneValue, "thread"} :
       QueryState(e, app, component_name)
  \/ \E e \in StoreEnvs : InsertState(e, "gmail", "thread", Obj([subject |-> Str("s")]))
  \/ \E e \in StoreEnvs, id \in RecordIds : UpdateState(e, id, Obj([subject |-> Str("draft")]))
  \/ \E e \in StoreEnvs, id \in RecordIds : DeleteState(e, id)

SpecStore == InitStore /\ [][NextStore]_vars

-----------------------------------------------------------------------------
(* The generation loop of bootstrapping/gen_data.py: main re-reads the seed  *)
(* and the synthetic file in every iteration, generates one object, asks    *)
(* the filter, and appends the object when the filter lets it pass. A file  *)
(* holds a list, [list |-> sequence], or one other JSON value, [value |-> v]. *)

\* isinstance(data, list)
IsList(data) == "list" \in DOMAIN data

\* Python truthiness of a JSON value that is no list: {} and null are falsy
FalsyValues == {"{}"}

\* contents a JSON file may have at the start
FileContents(item) ==
  {[list |-> items] : items \in BoundedSeq({item}, MaxFileSize)} \cup {[value |-> "{}"], [value |-> item]}

\* get_current_total_count(seed_path, synthetic_path)
get_current_total_count(seed_data, synthetic_data) ==
  LET seed_count == IF IsList(seed_data) THEN Len(seed_data.list) ELSE 1
      synthetic_count ==
        IF IsList(synthetic_data) THEN Len(synthetic_data.list)
        ELSE IF synthetic_data.value \notin FalsyValues THEN 1 ELSE 0
  IN  seed_count + synthetic_count

\* an append that writes the new object over the file
append_to_synthetic_file_overwriting(file_content, new_data) == [list |-> <<new_data>>]

\* append_to_synthetic_file(filepath, new_data): the content written back
append_to_synthetic_file(file_content, new_data) ==
  LET as_list ==
        IF IsList(file_content) THEN file_content.list
        ELSE IF file_content.value \notin FalsyValues THEN <<file_content.value>> ELSE <<>>
  IN  [list |-> Append(as_list, new_data)]

\* answers of the filter model, after .strip().upper()
FilterResponses == {"YES", "NO", "NOT SURE", "MAYBE"}

\* "YES" in response_text, "NO" in response_text
ContainsYes(response_text) == response_text = "YES"
ContainsNo(response_text) == response_text \in {"NO", "NOT SURE"}

\* llm_filter: the verdict for the filter model's answer; an ambiguous answer passes
llm_filter(response_text) ==
  IF ContainsYes(response_text) THEN TRUE
  ELSE IF ContainsNo(response_text) THEN FALSE
  ELSE TRUE

\* one more model call, counted up to MaxLoopCalls
CountCall(n) == IF n < MaxLoopCalls THEN n + 1 ELSE n

InitLoop ==
  /\ seed_file \in FileContents("seed")
  /\ synthetic_file \in FileContents("synthetic")
  /\ args_target \in 0..MaxTarget
  /\ initial_total = get_current_total_count(seed_file, synthetic_file)
  /\ loop_pc = "check"
  /\ generated_objects = <<>>
  /\ loop_calls = 0
  /\ final_total = 0
  /\ StoreIdle
  /\ RaceIdle
  /\ PipelineIdle
  /\ dag = NoGraph
  /\ dag2 = NoGraph
  /\ heap = <<>>
  /\ last_op = "init"
  /\ stale = {}
  /\ last_node = Unbound
  /\ BuilderIdle
  /\ SetupIdle
  /\ PromptIdle

\* the head of an iteration: count, and leave the loop when the target is reached
CheckTotal ==
  LET current_total == get_current_total_count(seed_file, synthetic_file)
  IN  /\ loop_pc = "check"
      /\ IF current_total >= args_target
           THEN /\ loop_pc' = "done"
                /\ final_total' = get_current_total_count(seed_file, synthetic_file)
           ELSE /\ loop_pc' = "generate"
                /\ UNCHANGED final_total
      /\ UNCHANGED <<seed_file, synthetic_file, args_target, generated_objects, loop_calls, initial_total>>
      /\ UNCHANGED <<planner_vars, store_vars, race_vars, pipeline_vars>>

\* perform_data_extraction and generate_synthetic_object: one model call
GenerateObject ==
  /\ loop_pc = "generate"
  /\ loop_calls' = CountCall(loop_calls)
  /\ loop_pc' = "filter"
  /\ UNCHANGED <<seed_file, synthetic_file, args_target, generated_objects, initial_total, final_total>>
  /\ UNCHANGED <<planner_vars, store_vars, race_vars, pipeline_vars>>

\* llm_filter answers (one model call); the object is appended if it passes
Filter(response_text) ==
  /\ loop_pc = "filter"
  /\ loop_calls' = CountCall(loop_calls)
  /\ IF llm_filter(response_text)
       THEN /\ synthetic_file' = append_to_synthetic_file(synthetic_file, "generated")
            /\ generated_objects' = Append(generated_objects, "generated")
       ELSE UNCHANGED <<synthetic_file, generated_objects>>
  /\ loop_pc' = "check"
  /\ UNCHANGED <<seed_file, args_target, initial_total, final_total>>
  /\ UNCHANGED <<planner_vars, store_vars, race_vars, pipeline_vars>>

FilterPasses == \E response_text \in {r \in FilterResponses : llm_filter(r)} : Filter(response_text)

FilterRejects == \E response_text \in {r \in FilterResponses : ~llm_filter(r)} : Filter(response_text)

NextLoop == CheckTotal \/ GenerateObject \/ FilterPasses \/ FilterRejects

\* the loop keeps running, and the filter does not reject forever
SpecLoop ==
  /\ InitLoop
  /\ [][NextLoop]_vars
  /\ WF_vars(CheckTotal)
  /\ WF_vars(GenerateObject)
  /\ WF_vars(FilterPasses \/ FilterRejects)
  /\ SF_vars(FilterPasses)

-----------------------------------------------------------------------------
(* Two setup_environment runs for one environment. Each run reads the       *)
(* environments row, calls the planner with the world it read, and saves    *)
(* the world of the plan; the three steps are separate requests and nothing *)
(* in setup_environment orders the steps of one run against the other's.    *)

\* the environment both runs are started for
RaceEnv == "env-1"

\* world_markdown of the plan a planner response yields: the text of the response,
\* or "" when the response has no world_markdown
PlannedWorlds == WorldTexts \cup {""}

InitRace ==
  /\ world \in {[[e \in StoredEnvs |-> NoneValue] EXCEPT ![RaceEnv] = w] : w \in WorldTexts \cup {NoneValue}}
  /\ run_pc = [r \in Runs |-> "start"]
  /\ run_existing_world = [r \in Runs |-> NoneValue]
  /\ run_plan_world = [r \in Runs |-> NoneValue]
  /\ world_writers = <<>>
  /\ run_read_after = [r \in Runs |-> 0]
  /\ env = NoneValue
  /\ existing_world = NoneValue
  /\ plan_json = Unbound
  /\ plan = Unbound
  /\ warnings = <<>>
  /\ dag = NoGraph
  /\ dag2 = NoGraph
  /\ heap = <<>>
  /\ last_op = "init"
  /\ stale = {}
  /\ last_node = Unbound
  /\ BuilderIdle
  /\ PromptIdle
  /\ StoreIdle
  /\ LoopIdle
  /\ PipelineIdle

\* what a step of a concurrent run leaves alone
RaceFrame ==
  UNCHANGED <<graph_vars, builder_vars, env, existing_world, plan_json, plan, warnings, prompt_vars, store_vars, loop_vars, pipeline_vars>>

\* step 1 of run r: select connectors, world_markdown of the environment
ReadWorld(r) ==
  /\ run_pc[r] = "start"
  /\ run_existing_world' = [run_existing_world EXCEPT ![r] = world[RaceEnv]]
  /\ run_read_after' = [run_read_after EXCEPT ![r] = Len(world_writers)]
  /\ run_pc' = [run_pc EXCEPT ![r] = "plan"]
  /\ UNCHANGED <<world, run_plan_world, world_writers>>
  /\ RaceFrame

\* step 3 of run r: plan_environment(existing_world = the world r read) returns
PlanWorld(r, world_markdown) ==
  /\ run_pc[r] = "plan"
  /\ run_plan_world' = [run_plan_world EXCEPT ![r] = world_markdown]
  /\ run_pc' = [run_pc EXCEPT ![r] = "save"]
  /\ UNCHANGED <<world, run_existing_world, world_writers, run_read_after>>
  /\ RaceFrame

\* step 3 of run r raises: the run ends and saves nothing
PlanRaises(r) ==
  /\ run_pc[r] = "plan"
  /\ run_pc' = [run_pc EXCEPT ![r] = "done"]
  /\ UNCHANGED <<world, run_existing_world, run_plan_world, world_writers, run_read_after>>
  /\ RaceFrame

\* step 4 of run r: update world_markdown of the environment
WriteWorld(r) ==
  /\ run_pc[r] = "save"
  /\ world' = update_world(world, RaceEnv, run_plan_world[r])
  /\ world_writers' = Append(world_writers, r)
  /\ run_pc' = [run_pc EXCEPT ![r] = "done"]
  /\ UNCHANGED <<run_existing_world, run_plan_world, run_read_after>>
  /\ RaceFrame

NextRace ==
  \/ \E r \in Runs : ReadWorld(r)
  \/ \E r \in Runs : \E world_markdown \in PlannedWorlds : PlanWorld(r, world_markdown)
  \/ \E r \in Runs : PlanRaises(r)
  \/ \E r \in Runs : WriteWorld(r)

SpecRace == InitRace /\ [][NextRace]_vars

-----------------------------------------------------------------------------
(* run_generation_pipeline, called by generate_data_from_scenario: stage 1   *)
(* asks the model for raw text, stage 2 asks it once per fetched schema for *)
(* that schema's JSON, and the caller inserts what stage 2 collected.       *)

\* the rows of the schemas table the pipeline runs on
PipelineSchemaTable ==
  <<[app |-> "gmail", component_name |-> "thread", schema |-> ThreadSchema],
    [app |-> "slack", component_name |-> "message", schema |-> "{message-schema}"],
    [app |-> "gmail", component_name |-> "label", schema |-> "{label-schema}"]>>

\* connectors of the environments generate_data_from_scenario is called for
PipelineConnectors == {<<"gmail">>, <<"slack">>, <<"gmail", "slack">>, <<"notion">>}

\* fetch_schemas_for_apps(allowed_apps) on these rows
pipeline_schemas_for_apps(allowed_apps) ==
  SelectSeq(PipelineSchemaTable, LAMBDA row : Contains(allowed_apps, row.app))

\* what extract_structured_data may return: None after an exception, the empty
\* object, or an object with data
ExtractedData == {NoneValue, EmptyDict, "{data}"}

\* `if data:` for None or a JSON object
TruthyData(data) == data \notin {NoneValue, EmptyDict}

\* a stage 2 that collects whatever the extraction returned
collect_any(generated, schema_info, data) ==
  Append(generated, [app |-> schema_info.app, component_name |-> schema_info.component_name, data |-> data])

\* the body of the stage 2 loop after extract_structured_data returned data
collect(generated, schema_info, data) ==
  IF TruthyData(data)
    THEN Append(generated, [app |-> schema_info.app, component_name |-> schema_info.component_name, data |-> data])
    ELSE generated

\* the records insert_generated_data builds
insert_records(generated_items, environment_id) ==
  [i \in 1..Len(generated_items) |->
     [app |-> generated_items[i].app, component_name |-> generated_items[i].component_name,
      json_data |-> generated_items[i].data, environment_id |-> environment_id]]

InitPipeline ==
  /\ pipeline_pc = "idle"
  /\ pipeline_env = NoneValue
  /\ pipeline_schemas = <<>>
  /\ extractions = <<>>
  /\ generated_data = <<>>
  /\ pipeline_result = Unbound
  /\ pipeline_calls = 0
  /\ inserted_records = <<>>
  /\ dag = NoGraph
  /\ dag2 = NoGraph
  /\ heap = <<>>
  /\ last_op = "init"
  /\ stale = {}
  /\ last_node = Unbound
  /\ BuilderIdle
  /\ SetupIdle
  /\ PromptIdle
  /\ StoreIdle
  /\ LoopIdle
  /\ RaceIdle

\* what a step of the pipeline leaves alone
PipelineFrame == UNCHANGED <<planner_vars, store_vars, loop_vars, race_vars>>

\* run_generation_pipeline up to its first return or the stage 1 model call
RunGenerationPipeline(environment_id, allowed_apps) ==
  LET fetched == pipeline_schemas_for_apps(allowed_apps)
  IN  /\ pipeline_pc = "idle"
      /\ pipeline_env' = environment_id
      /\ pipeline_schemas' = fetched
      /\ IF fetched = <<>>
           THEN /\ pipeline_result' = [error |-> "No schemas available", generated |-> <<>>]
                /\ pipeline_pc' = "returned"
           ELSE /\ pipeline_result' = Unbound
                /\ pipeline_pc' = "stage1"
      /\ UNCHANGED <<extractions, generated_data, pipeline_calls, inserted_records>>
      /\ PipelineFrame

\* generate_raw_data returns the raw text
GenerateRawData ==
  /\ pipeline_pc = "stage1"
  /\ pipeline_calls' = pipeline_calls + 1
  /\ pipeline_pc' = "stage2"
  /\ UNCHANGED <<pipeline_env, pipeline_schemas, extractions, generated_data, pipeline_result, inserted_records>>
  /\ PipelineFrame

\* generate_raw_data raises: nothing catches it, the pipeline and its caller end
GenerateRawDataRaises ==
  /\ pipeline_pc = "stage1"
  /\ pipeline_calls' = pipeline_calls + 1
  /\ pipeline_pc' = "raised"
  /\ UNCHANGED <<pipeline_env, pipeline_schemas, extractions, generated_data, pipeline_result, inserted_records>>
  /\ PipelineFrame

\* one iteration of the stage 2 loop: extract_structured_data for the next schema
\* returns data; after the last schema the pipeline returns its result
ExtractStructuredData(data) ==
  LET i == Len(extractions) + 1
      collected == collect(generated_data, pipeline_schemas[i], data)
  IN  /\ pipeline_pc = "stage2"
      /\ pipeline_calls' = pipeline_calls + 1
      /\ extractions' = Append(extractions, [schema_info |-> pipeline_schemas[i], data |-> data])
      /\ generated_data' = collected
      /\ IF i = Len(pipeline_schemas)
           THEN /\ pipeline_result' = [raw_data_length |-> "len(raw_data)",
                                      schemas_processed |-> Len(pipeline_schemas),
                                      generated |-> collected]
                /\ pipeline_pc' = "returned"
           ELSE /\ pipeline_pc' = "stage2"
                /\ UNCHANGED pipeline_result
      /\ UNCHANGED <<pipeline_env, pipeline_schemas, inserted_records>>
      /\ PipelineFrame

\* insert_generated_data(result.get('generated', []), environment_id)
InsertGeneratedData ==
  /\ pipeline_pc = "returned"
  /\ inserted_records' = insert_records(Get(pipeline_result, "generated", <<>>), pipeline_env)
  /\ pipeline_pc' = "inserted"
  /\ UNCHANGED <<pipeline_env, pipeline_schemas, extractions, generated_data, pipeline_result, pipeline_calls>>
  /\ PipelineFrame

NextPipeline ==
  \/ \E environment_id \in StoreEnvs, allowed_apps \in PipelineConnectors :
       RunGenerationPipeline(environment_id, allowed_apps)
  \/ GenerateRawData
  \/ GenerateRawDataRaises
  \/ \E data \in ExtractedData : ExtractStructuredData(data)
  \/ InsertGeneratedData

SpecPipeline == InitPipeline /\ [][NextPipeline]_vars

-----------------------------------------------------------------------------
(* Properties of the agent server's store, checked under SpecStore *)

\* positions of the rows with this id in this environment
Matching(table, id, environment_id) ==
  {i \in 1..Len(table) : table[i].id = id /\ table[i].environment_id = environment_id}

\* the list index a key part denotes, -1 when it is no decimal numeral
DecimalIndex(part) == IF part = "0" THEN 0 ELSE IF part = "1" THEN 1 ELSE 0 - 1

\* the key part that denotes list position i
IndexPart(i) == IF i = 1 THEN "0" ELSE IF i = 2 THEN "1" ELSE "2"

RECURSIVE Resolves(_, _, _)
\* the key path, from part i on, names a value that exists inside json
Resolves(json, parts, i) ==
  IF i > Len(parts) THEN TRUE
  ELSE IF IsObj(json)
    THEN parts[i] \in DOMAIN json.obj /\ Resolves(json.obj[parts[i]], parts, i + 1)
  ELSE IF IsArr(json)
    THEN /\ DecimalIndex(parts[i]) >= 0
         /\ DecimalIndex(parts[i]) < Len(json.arr)
         /\ Resolves(json.arr[DecimalIndex(parts[i]) + 1], parts, i + 1)
  ELSE FALSE

RECURSIVE PathsOf(_, _)
\* every value inside json as <<its key path, its type, its text>>
PathsOf(json, prefix) ==
  IF IsObj(json)
    THEN {<<prefix, "obj", "">>}
           \cup UNION {PathsOf(json.obj[k], Append(prefix, k)) : k \in DOMAIN json.obj}
  ELSE IF IsArr(json)
    THEN {<<prefix, "arr", "">>}
           \cup UNION {PathsOf(json.arr[i], Append(prefix, IndexPart(i))) : i \in 1..Len(json.arr)}
  ELSE {<<prefix, "str", json.str>>}

\* the key path `parts` leads to or through the key path `path`
Within(path, parts) == Len(path) >= Len(parts) /\ SubSeq(path, 1, Len(parts)) = parts

\* the values of json that lie neither at nor below the key path
Outside(json, parts) == {q \in PathsOf(json, <<>>) : ~Within(q[1], parts)}

\* the values of json at and below the key path, with the key path cut off
Inside(json, parts) ==
  {<<SubSeq(q[1], Len(parts) + 1, Len(q[1])), q[2], q[3]>> : q \in {r \in PathsOf(json, <<>>) : Within(r[1], parts)}}

\* C24: update_synthetic_data raises RecordNotFoundError when the caller's
\* environment has no record with the id, KeyPathError when the key path is empty,
\* has an empty segment or does not fully exist in json_data, and then leaves the
\* table as it was; on success only the value at the path differs.
C24_UpdateNeverCreatesNorWritesOnError ==
  [][store_op'.name = "update_synthetic_data" =>
       LET found == Matching(artificial_data, store_op'.id, store_op'.environment_id)
           key == store_op'.key
       IN  /\ found = {} =>
                store_result'.kind = "raised" /\ store_result'.error = "RecordNotFoundError"
           /\ (found # {} /\ \E i \in found :
                                \/ key = <<"">>
                                \/ \E k \in 1..Len(key) : key[k] = ""
                                \/ ~Resolves(artificial_data[i].json_data, key, 1)) =>
                store_result'.kind = "raised" /\ store_result'.error = "KeyPathError"
           /\ store_result'.kind = "raised" => artificial_data' = artificial_data
           /\ store_result'.kind = "returned" =>
                /\ Len(artificial_data') = Len(artificial_data)
                /\ \A i \in 1..Len(artificial_data) :
                     /\ [artificial_data'[i] EXCEPT !.json_data = Str("")]
                          = [artificial_data[i] EXCEPT !.json_data = Str("")]
                     /\ i \notin found => artificial_data'[i] = artificial_data[i]
                     /\ i \in found =>
                          /\ Outside(artificial_data'[i].json_data, key)
                               = Outside(artificial_data[i].json_data, key)
                          /\ Inside(artificial_data'[i].json_data, key)
                               = PathsOf(store_op'.value, <<>>)]_vars

\* json_data has every key the gmail/thread schema names, with the schema's types
MatchesThreadStructure(json) ==
  /\ IsObj(json)
  /\ "emails" \in DOMAIN json.obj
  /\ IsArr(json.obj["emails"])
  /\ \A i \in 1..Len(json.obj["emails"].arr) :
       /\ IsObj(json.obj["emails"].arr[i])
       /\ "subject" \in DOMAIN json.obj["emails"].arr[i].obj

\* C25: insert_synthetic_data raises ValueError when no schema exists for
\* (app, component_name) and SchemaValidationError when json_data fails the
\* validation, leaving the table unchanged in both cases; it inserts only after a
\* schema was found and json_data passed.
C25_InsertOnlyAfterValidation ==
  [][store_op'.name = "insert_synthetic_data" =>
       LET known == store_op'.app = "gmail" /\ store_op'.component_name = "thread"
       IN  /\ ~known =>
                /\ store_result' = Raised("ValueError")
                /\ artificial_data' = artificial_data
           /\ (known /\ ~MatchesThreadStructure(store_op'.json_data)) =>
                /\ store_result' = Raised("SchemaValidationError")
                /\ artificial_data' = artificial_data
           /\ artificial_data' # artificial_data =>
                /\ known
                /\ MatchesThreadStructure(store_op'.json_data)
                /\ Len(artificial_data') = Len(artificial_data) + 1
                /\ SubSeq(artificial_data', 1, Len(artificial_data)) = artificial_data
                /\ artificial_data'[Len(artificial_data')].json_data = store_op'.json_data
                /\ artificial_data'[Len(artificial_data')].app = store_op'.app
                /\ artificial_data'[Len(artificial_data')].component_name = store_op'.component_name]_vars

\* C25 witness: insert_synthetic_data was refused for a json_data that fails the
\* schema, with a row of an earlier insert in the table
C25_Witness ==
  /\ store_op # Unbound
  /\ store_op.name = "insert_synthetic_data"
  /\ store_result = Raised("SchemaValidationError")
  /\ Len(artificial_data) = 1

\* the rows of the table that belong to other environments than this one
RowsOfOthers(table, environment_id) ==
  SelectSeq(table, LAMBDA row : row.environment_id # environment_id)

\* C27: every operation on artificial_data, by a tool, an endpoint or a state
\* helper, issued for environment E returns only records of E, leaves the records
\* of every other environment as they were, and tags what it inserts with E.
C27_StoreIsolatedByEnvironment ==
  [][/\ RowsOfOthers(artificial_data', store_op'.environment_id)
          = RowsOfOthers(artificial_data, store_op'.environment_id)
     /\ \A i \in 1..Len(store_result'.rows) :
          store_result'.rows[i].environment_id = store_op'.environment_id
     /\ \A i \in 1..Len(artificial_data') :
          (\A j \in 1..Len(artificial_data) : artificial_data[j].id # artificial_data'[i].id)
            => artificial_data'[i].environment_id = store_op'.environment_id]_vars

\* C27 witness: an update issued for env-1 named the id of a record of env-2 and
\* found no record
C27_Witness ==
  /\ store_op # Unbound
  /\ store_op.name = "update_synthetic_data"
  /\ store_op.environment_id = "env-1"
  /\ store_result = Raised("RecordNotFoundError")
  /\ \E i \in 1..Len(artificial_data) :
       artificial_data[i].id = store_op.id /\ artificial_data[i].environment_id = "env-2"

-----------------------------------------------------------------------------
(* Properties of the generation loop, checked under SpecLoop *)

\* seed + synthetic count of the files as they are now
CurrentTotal == get_current_total_count(seed_file, synthetic_file)

\* the number of objects the synthetic file counts for
SyntheticCount == CurrentTotal - get_current_total_count(seed_file, [list |-> <<>>])

\* what every step of the loop keeps: the file grows by the one object of an
\* iteration that passed the filter and is untouched by every other step
OneObjectPerPassedIteration ==
  [][/\ synthetic_file' # synthetic_file =>
          /\ loop_pc = "filter"
          /\ Len(generated_objects') = Len(generated_objects) + 1
          /\ get_current_total_count(seed_file', synthetic_file') = CurrentTotal + 1
          /\ synthetic_file'.list[Len(synthetic_file'.list)] = generated_objects'[Len(generated_objects')]
     /\ generated_objects' # generated_objects => synthetic_file' # synthetic_file
     /\ seed_file' = seed_file]_vars

\* what holds while the loop runs and when it has stopped
StopsAtTarget ==
  /\ CurrentTotal = initial_total + Len(generated_objects)
  /\ initial_total < args_target => CurrentTotal <= args_target
  /\ initial_total >= args_target => (loop_calls = 0 /\ generated_objects = <<>>)
  /\ loop_pc \in {"generate", "filter"} => CurrentTotal < args_target
  /\ loop_pc = "done" =>
       /\ final_total = CurrentTotal
       /\ initial_total < args_target =>
            (final_total = args_target /\ Len(generated_objects) = args_target - initial_total)

-----------------------------------------------------------------------------
(* Properties of two concurrent setup_environment runs, checked under SpecRace *)

\* both runs have ended and both saved a world
BothSaved == (\A r \in Runs : run_pc[r] = "done") /\ Len(world_writers) = 2

\* C28: when two setup_environment runs for one environment have both saved, the
\* world finally stored is the plan of a run that read the row after the other
\* run's write, so that it was planned from the world the other run wrote.
C28_InterleavedRunsLoseNoUpdate ==
  BothSaved =>
    /\ world[RaceEnv] = run_plan_world[world_writers[2]]
    /\ run_read_after[world_writers[2]] = 1
    /\ run_existing_world[world_writers[2]] = run_plan_world[world_writers[1]]

\* the part of C28 that holds: the world finally stored is the plan of the run
\* that wrote last
C28_LastWriterWins ==
  BothSaved => world[RaceEnv] = run_plan_world[world_writers[2]]

-----------------------------------------------------------------------------
(* Graph records as snapshots, checked under SpecGraph *)

\* what a reader of the record to_dict(g) finds in it while the lists hold h:
\* every depends_on address replaced by the list it holds
RecordContent(g, h) ==
  LET data == to_dict(g)
  IN  [data EXCEPT !.nodes =
         [i \in 1..Len(data.nodes) |-> [data.nodes[i] EXCEPT !.depends_on = h[data.nodes[i].depends_on]]]]

\* C29: from_dict leaves the record it is given as it was, depends_on lists
\* included, and a record that to_dict returned before an add_edge reads the same
\* after it. (The record holds the lists of the graph's nodes, and neither step
\* replaces a node, so the record read after the step is RecordContent of the
\* graph after the step, up to the edge that add_edge appends to the graph.)
C29_RecordsAreIndependentSnapshots ==
  [][/\ last_op' = "round_trip" => RecordContent(dag', heap') = RecordContent(dag, heap)
     /\ last_op' = "add_edge" => RecordContent(dag', heap').nodes = RecordContent(dag, heap).nodes]_vars

\* the part of C29 that holds: from_dict and add_edge change no list of a record
\* except by the back-fill, which only appends the source of an edge of the graph
C29_RecordChangesOnlyByBackfill ==
  [][\A i \in 1..Len(dag.nodes) :
        last_op' \in {"round_trip", "add_edge"} =>
          LET before == RecordContent(dag, heap).nodes[i]
              after == RecordContent(dag', heap').nodes[i]
          IN  /\ [after EXCEPT !.depends_on = before.depends_on] = before
              /\ Len(after.depends_on) >= Len(before.depends_on)
              /\ SubSeq(after.depends_on, 1, Len(before.depends_on)) = before.depends_on
              /\ \A k \in (Len(before.depends_on) + 1)..Len(after.depends_on) :
                   <<after.depends_on[k], after.id>> \in EdgePairs(dag')]_vars

-----------------------------------------------------------------------------
(* Properties of the generation pipeline, checked under SpecPipeline *)

\* the schemas of the first n extractions whose data was an object with data
RECURSIVE Extracted(_)
Extracted(n) ==
  IF n = 0 THEN <<>>
  ELSE IF TruthyData(extractions[n].data)
    THEN Append(Extracted(n - 1), [app |-> extractions[n].schema_info.app,
                                   component_name |-> extractions[n].schema_info.component_name,
                                   data |-> extractions[n].data])
    ELSE Extracted(n - 1)

\* C30: stage 2 attempts every fetched schema once, in schema order, whatever the
\* earlier extractions returned; the 'generated' list returned holds, in schema
\* order, exactly the schemas whose extraction returned an object with data; with
\* no schemas the pipeline returns the "No schemas available" error with an empty
\* list and no model call, and the caller then inserts nothing.
C30_Stage2AttemptsEverySchemaOnce ==
  /\ Len(extractions) <= Len(pipeline_schemas)
  /\ \A i \in 1..Len(extractions) : extractions[i].schema_info = pipeline_schemas[i]
  /\ generated_data = Extracted(Len(extractions))
  /\ pipeline_pc = "stage2" => Len(extractions) < Len(pipeline_schemas)
  /\ (pipeline_pc \in {"returned", "inserted"} /\ pipeline_schemas # <<>>) =>
       /\ Len(extractions) = Len(pipeline_schemas)
       /\ pipeline_calls = 1 + Len(pipeline_schemas)
       /\ pipeline_result.generated = Extracted(Len(pipeline_schemas))
       /\ pipeline_result.schemas_processed = Len(pipeline_schemas)
  /\ (pipeline_pc \in {"returned", "inserted"} /\ pipeline_schemas = <<>>) =>
       /\ pipeline_result = [error |-> "No schemas available", generated |-> <<>>]
       /\ pipeline_calls = 0
       /\ inserted_records = <<>>
  /\ pipeline_pc = "inserted" =>
       /\ Len(inserted_records) = Len(pipeline_result.generated)
       /\ \A i \in 1..Len(inserted_records) :
            /\ inserted_records[i].environment_id = pipeline_env
            /\ inserted_records[i].json_data = pipeline_result.generated[i].data
  /\ pipeline_pc # "inserted" => inserted_records = <<>>

\* C30 witness: three schemas, the extraction for the second one failed, and the
\* first and the third are returned and inserted
C30_Witness ==
  /\ pipeline_pc = "inserted"
  /\ Len(pipeline_schemas) = 3
  /\ extractions[1].data = "{data}"
  /\ extractions[2].data = NoneValue
  /\ extractions[3].data = "{data}"
  /\ Len(inserted_records) = 2
  /\ inserted_records[2].component_name = "label"

====
